---- MODULE Spec2Model ----
(***************************************************************************)
(* A model of the Melbourne Property Finder data pipeline and of the REIV  *)
(* median-price resolver of its server.                                    *)
(*                                                                         *)
(*   scripts/merge-vpsr-data.js          MergeVpsrData   (SpecMerge)       *)
(*   scripts/fetch-reiv-suburbs.js       geocode-fill    (SpecGeocode)     *)
(*   scripts/fetch-reiv-prices.js        price-fill      (SpecPrice)       *)
(*   scripts/fetch-reiv-prices-with-units.js  price-fill, Puppeteer        *)
(*   server.js fetchREIVSuburbPrices     REIV resolver   (SpecReiv)        *)
(*                                                                         *)
(* A JavaScript null is the string "null"; an object property that is      *)
(* missing is "absent" and one that holds undefined is "undefined": the    *)
(* two differ in memory and JSON.stringify writes neither.                 *)
(***************************************************************************)
EXTENDS Integers, Sequences, FiniteSets, TLC

VARIABLES
    stage,          \* which script the process runs: "merge", "geocode", "price", "reiv"
    suburbsFile,    \* data/suburbs.json on disk: [keys, suburbs, notes], keys in
                    \* insertion order (the order of Object.keys)
    vpsrFile,       \* data/vpsr-june-2025.json on disk
    mergeRuns,      \* merge-vpsr-data.js: completed runs
    fileBefore,     \* data/suburbs.json as it was before the last merge run
    cacheFile,      \* data/geocode-cache.json on disk: name -> coordinates
    pc,             \* where the batch script's main() is suspended
    variant,        \* price-fill: "html" (fetch-reiv-prices.js) or "puppeteer"
    limit,          \* --limit N of the runs, NoLimit when not given
    suburbs,        \* main(): the dataset in memory
    cache,          \* geocode main(): the geocode cache in memory
    toProcess,      \* geocode main(): toProcess; price main(): missing
    total,          \* main(): total
    i,              \* main(): the loop index, counted from 1
    upstream,       \* what the external service answers for each name
    run,            \* runs of the batch script started so far
    calls,          \* external calls issued in this run, per name
    results,        \* names whose call returned a value in this run
    saved,          \* names whose value of this run is in durable storage
    writesAt,       \* this run's writes of data/suburbs.json: the number of
                    \* records processed when each happened
    prev,           \* calls, results, saved, toProcess, total, limit of the
                    \* previous run, and whether it was interrupted
    file0,          \* data/suburbs.json before the first run
    reivCache,      \* server.js: const reivCache, slug -> [data, at]
    clock,          \* server.js: what Date.now() returns, in ms
    ticks,          \* how often the clock has advanced
    reqs,           \* the GET /api/reiv/suburb/:slug requests, each with the
                    \* position of its handler and what it did
    wake,           \* geocode main(): the time before which the timer of
                    \* sleep(DELAY_MS) does not fire
    geoStarts,      \* geocode main(): the times at which this run's geocode
                    \* calls were issued
    transit,        \* the GET /api/transit-to-southern-cross requests, each
                    \* with the position of its handler
    report,         \* extract-vpsr-suburbs.js: the lines of the report PDF
                    \* that parseLine accepts, as it returns them
    reivList,       \* data/reiv-suburb-list.json on disk: [names, slugs]
    stubLog,        \* the stub-creation scripts run so far, in order
    listing,        \* the POST /api/listing-from-url request: the position of
                    \* its handler, what it was given and what it answered
    nearby,         \* the GET /api/nearby-stops request, likewise
    server          \* the server process: where its start-up is, the
                    \* dataset file it finds, suburbData and its answers

stubVars == <<report, reivList, stubLog>>
handlerVars == <<listing, nearby, server>>
mergeVars == <<vpsrFile, mergeRuns, fileBefore, stubVars, handlerVars>>
procVars == <<pc, variant, limit, suburbs, cache, toProcess, total, i>>
histVars == <<run, calls, results, saved, writesAt, prev>>
batchVars == <<cacheFile, procVars, upstream, histVars, file0>>

reivVars == <<reivCache, clock, ticks, reqs>>

gateVars == <<wake, geoStarts, transit>>

vars == <<stage, suburbsFile, mergeVars, batchVars, reivVars, gateVars>>

Null == "null"
Absent == "absent"
Undefined == "undefined"
\* The value of the field priceHistory2025 of a record that has no
\* priceHistory object at all (the scripts test `if (sub.priceHistory)`).
NoHistory == "no priceHistory"

(***************************************************************************)
(* Bounds of the model                                                     *)
(***************************************************************************)

\* Runs of merge-vpsr-data.js in a row.
MaxMergeRuns == 2
\* Runs of a batch script (geocode-fill or price-fill) in a row.
MaxRuns == 2
\* The largest --limit N tried.
MaxLimit == 2
\* Lines of the report that parseLine accepts.
MaxLines == 3
\* Price-like pieces of text in a listing page.
MaxTokens == 2
\* Nodes in an answer of Overpass.
MaxNodes == 2
\* Scripts run one after the other in the pipeline.
MaxScripts == 5
\* Runs of the stub-creation scripts in a row.
MaxStubRuns == 2
\* Suburbs of the price-fill dataset: more than one checkpoint interval.
PriceSuburbs == 22
\* Requests to GET /api/reiv/suburb/:slug.
MaxCalls == 2
\* Advances of the server's clock.
MaxTicks == 2

EmptyMap == [x \in {} |-> Null]
Min(a, b) == IF a <= b THEN a ELSE b
Range(seq) == {seq[k] : k \in DOMAIN seq}

(***************************************************************************)
(* JSON                                                                    *)
(***************************************************************************)

\* JSON.stringify of one suburb record: a property holding undefined is not
\* written, so it is absent from the file.
StringifySuburb(sub) ==
    IF sub.priceHistory2025 = Undefined
    THEN [sub EXCEPT !.priceHistory2025 = Absent]
    ELSE sub

\* fs.writeFileSync(suburbsPath, JSON.stringify(suburbs, null, 2)) followed by
\* JSON.parse(fs.readFileSync(suburbsPath)): what a later run reads back.
StringifySuburbs(data) ==
    [keys    |-> data.keys,
     suburbs |-> [n \in DOMAIN data.suburbs |-> StringifySuburb(data.suburbs[n])],
     notes   |-> data.notes]

(***************************************************************************)
(* scripts/merge-vpsr-data.js                                              *)
(***************************************************************************)

\* Lines 18-22: the keys starting with "_" are dropped.
VpsrData(vpsr) ==
    [k \in {x \in DOMAIN vpsr : x # "_comment"} |-> vpsr[k]]

\* `!row` of line 30: the report has no row of that name.
NoRow(vpsrData, name) == name \notin DOMAIN vpsrData

\* Lines 31-37: the suburb is not in the report.
ClearSuburb(sub) ==
    [sub EXCEPT !.medianPrice = Null,
                !.medianPriceUnit = Null,
                !.annualChange = Null,
                !.salesCount = Null,
                !.priceHistory2025 = IF sub.priceHistory2025 # NoHistory
                                     THEN Undefined
                                     ELSE @]

\* A slip in the order of lines 41-42: the history is stamped with the price
\* the record held before the overwrite.
UpdateSuburbStampsOld(sub, row) ==
    [sub EXCEPT
        !.medianPrice = IF row.medianPrice # Null THEN row.medianPrice ELSE @,
        !.priceHistory2025 = IF row.medianPrice # Null /\ sub.priceHistory2025 # NoHistory
                             THEN sub.medianPrice ELSE @,
        !.medianPriceUnit = IF row.medianPriceUnit # Null THEN row.medianPriceUnit ELSE @,
        !.annualChange = IF row.annualChange # Null THEN row.annualChange ELSE @,
        !.salesCount = IF row.salesCount # Null THEN row.salesCount ELSE @]

\* A slip in line 46: the sales count is not copied.
UpdateSuburbNoSales(sub, row) ==
    [sub EXCEPT
        !.medianPrice = IF row.medianPrice # Null THEN row.medianPrice ELSE @,
        !.priceHistory2025 = IF row.medianPrice # Null /\ sub.priceHistory2025 # NoHistory
                             THEN row.medianPrice ELSE @,
        !.medianPriceUnit = IF row.medianPriceUnit # Null THEN row.medianPriceUnit ELSE @,
        !.annualChange = IF row.annualChange # Null THEN row.annualChange ELSE @]

\* Lines 40-46: the suburb has a report row.
UpdateSuburb(sub, row) ==
    [sub EXCEPT
        !.medianPrice = IF row.medianPrice # Null THEN row.medianPrice ELSE @,
        !.priceHistory2025 = IF row.medianPrice # Null /\ sub.priceHistory2025 # NoHistory
                             THEN row.medianPrice ELSE @,
        !.medianPriceUnit = IF row.medianPriceUnit # Null THEN row.medianPriceUnit ELSE @,
        !.annualChange = IF row.annualChange # Null THEN row.annualChange ELSE @,
        !.salesCount = IF row.salesCount # Null THEN row.salesCount ELSE @]

\* Lines 27-48: the loop over Object.keys(suburbs.suburbs); lines 50-54 set
\* the metadata to fixed texts.
MergeVpsrData(data, vpsr) ==
    LET vpsrData == VpsrData(vpsr)
    IN [keys |-> data.keys,
        suburbs |-> [n \in DOMAIN data.suburbs |->
                        IF NoRow(vpsrData, n)
                        THEN ClearSuburb(data.suburbs[n])
                        ELSE UpdateSuburb(data.suburbs[n], vpsrData[n])],
        notes |-> <<"vpsr">>]

\* No run of the previous kind: the history a first run starts from.
NoPrev ==
    [calls |-> EmptyMap, results |-> {}, saved |-> {}, toProcess |-> <<>>,
     total |-> 0, limit |-> 0, crashed |-> FALSE]

\* A request that has not arrived yet.
IdleReq ==
    [slug |-> "", t0 |-> 0, pc |-> "idle", fetched |-> FALSE, hit |-> FALSE,
     hadEntry |-> FALSE, age |-> 0, res |-> "none", status |-> 0,
     data |-> [null |-> TRUE]]

\* A transit request that has not arrived yet.
IdleTransit ==
    [pc |-> "idle", address |-> "", t0 |-> 0, geocoded |-> FALSE,
     ok |-> FALSE, stops |-> FALSE, routes |-> 0, status |-> 0,
     found |-> FALSE, geoList |-> "", log |-> <<>>, osrm |-> <<"", "">>,
     reply |-> [kind |-> "none", error |-> "", steps |-> "", durationText |-> "",
                message |-> "", drive |-> <<>>]]

\* The inputs of the stub-creation scripts while another script is modelled.
StubUnused ==
    /\ report = <<>>
    /\ reivList = [names |-> <<>>, slugs |-> <<>>]
    /\ stubLog = <<>>

\* The timing of geocoding calls before any was made.
\* server.js line 114: let price = null, among prices that are numbers.
NullPrice == -1

\* A listing request that has not arrived yet.
IdleListing ==
    [pc |-> "idle", url |-> "", site |-> "", timer |-> FALSE, fetches |-> 0,
     status |-> 0, html |-> <<>>, price |-> NullPrice,
     slug |-> <<>>, typeToken |-> "", keyword |-> "", suburb |-> "",
     propertyType |-> ""]

\* A nearby-stops request that has not arrived yet.
IdleNearby ==
    [pc |-> "idle", query |-> "", fetches |-> 0, ok |-> FALSE, status |-> 0,
     elements |-> <<>>, error |-> "",
     result |-> [train |-> [null |-> TRUE], tram |-> [null |-> TRUE],
                 bus |-> [null |-> TRUE]]]

\* The server process before node server.js is run.
ServerDown(file) ==
    [pc |-> "down", file |-> file, suburbData |-> Null, answers |-> <<>>]

\* The two handlers while something else is modelled.
HandlersUnused ==
    /\ listing = IdleListing
    /\ nearby = IdleNearby
    /\ server = ServerDown("readable")

GateUnused ==
    /\ StubUnused
    /\ HandlersUnused
    /\ wake = 0
    /\ geoStarts = <<>>
    /\ transit = [r \in 1..MaxCalls |-> IdleTransit]

\* The server's variables while a script is modelled.
ReivUnused ==
    /\ reivCache = EmptyMap
    /\ clock = 0
    /\ ticks = 0
    /\ reqs = [c \in 1..MaxCalls |-> IdleReq]

\* The batch scripts' variables while another script is modelled.
BatchUnused ==
    /\ cacheFile = EmptyMap
    /\ pc = "idle"
    /\ variant = "none"
    /\ limit = 0
    /\ suburbs = Null
    /\ cache = EmptyMap
    /\ toProcess = <<>>
    /\ total = 0
    /\ i = 0
    /\ upstream = EmptyMap
    /\ run = 0
    /\ calls = EmptyMap
    /\ results = {}
    /\ saved = {}
    /\ writesAt = <<>>
    /\ prev = NoPrev

(***************************************************************************)
(* Inputs of the merge stage                                               *)
(***************************************************************************)

\* Two suburbs of the dataset and one locality that only the report names.
MergeKeys == <<"Kew", "Lara">>
MergeNames == {MergeKeys[k] : k \in DOMAIN MergeKeys}
ReportOnlyName == "Tarneit"

OldPrice == "700000"
NewPrice == "650000"

\* priceHistory: no object, or an object whose 2025 entry is absent or a
\* price. Other years are never touched by any script and are left out.
PriceHistories == {NoHistory, Absent, OldPrice}

MergeSuburbRecords ==
    [medianPrice : {Null, OldPrice},
     medianPriceUnit : {Null, "480000"},
     annualChange : {Null, "3.1"},
     salesCount : {Null, "40"},
     priceHistory2025 : PriceHistories,
     coords : {Null},
     reivSlug : {"slug"}]

\* A row as extract-vpsr-suburbs.js writes it (lines 79-91): medianPrice always,
\* annualChange and salesCount when known; a medianPriceUnit when the file
\* carries one.
VpsrRows ==
    [medianPrice : {NewPrice},
     medianPriceUnit : {Null, "450000"},
     annualChange : {Null, "-2.7"},
     salesCount : {Null, "55"}]

VpsrComment == [text |-> "VPSR June 2025 quarter"]

ReportOnlyRow ==
    [medianPrice |-> NewPrice, medianPriceUnit |-> Null,
     annualChange |-> Null, salesCount |-> "55"]

VpsrFiles ==
    { f \in UNION { [S \cup {"_comment"} -> VpsrRows \cup {VpsrComment}] :
                       S \in SUBSET (MergeNames \cup {ReportOnlyName}) } :
        /\ f["_comment"] = VpsrComment
        /\ \A n \in DOMAIN f : n # "_comment" => f[n] \in VpsrRows
        /\ ReportOnlyName \in DOMAIN f => f[ReportOnlyName] = ReportOnlyRow }

InitMerge ==
    /\ GateUnused
    /\ ReivUnused
    /\ stage = "merge"
    /\ suburbsFile \in [keys : {MergeKeys},
                        suburbs : [MergeNames -> MergeSuburbRecords],
                        notes : {<<"orig">>}]
    /\ vpsrFile \in VpsrFiles
    /\ mergeRuns = 0
    /\ fileBefore = suburbsFile
    /\ file0 = suburbsFile
    /\ BatchUnused

\* node scripts/merge-vpsr-data.js: the script is synchronous, it reads both
\* files, merges and writes the dataset back (lines 14-56).
RunMerge ==
    /\ stage = "merge"
    /\ mergeRuns < MaxMergeRuns
    /\ fileBefore' = suburbsFile
    /\ suburbsFile' = StringifySuburbs(MergeVpsrData(suburbsFile, vpsrFile))
    /\ mergeRuns' = mergeRuns + 1
    /\ UNCHANGED <<gateVars, reivVars, stage, vpsrFile, stubVars, handlerVars,
                   batchVars>>

NextMerge == RunMerge

SpecMerge == InitMerge /\ [][NextMerge]_vars

(***************************************************************************)
(* The batch scripts: what one run of main() shares                        *)
(***************************************************************************)

\* --limit N (lines 94-100 of the geocode script, 62-68 of fetch-reiv-prices.js):
\* a missing, non-numeric or < 1 argument leaves limit = null.
NoLimit == 0

\* total = limit != null ? Math.min(limit, list.length) : list.length
TotalOf(lim, list) == IF lim # NoLimit THEN Min(lim, Len(list)) ELSE Len(list)

\* The record of the run that ends (or is interrupted) when the next starts.
ThisRun(crashed) ==
    [calls |-> calls, results |-> results, saved |-> saved,
     toProcess |-> toProcess, total |-> total, limit |-> limit,
     crashed |-> crashed]

NoCalls(data) == [n \in DOMAIN data.suburbs |-> 0]

\* A run may start when no run is in progress.
CanStart == pc \in {"idle", "done", "crashed"} /\ run < MaxRuns

(***************************************************************************)
(* scripts/fetch-reiv-suburbs.js, lines 46-174: geocode-missing-suburbs    *)
(***************************************************************************)

\* What Nominatim may answer to one search.
NominatimResponses ==
    {"match", "empty", "nan", "http_error", "html_body", "network_error"}

GeocodedCoords == "-37.81,144.96"

\* geocode(query) without the test of line 89.
GeocodeUnchecked(resp) ==
    CASE resp = "network_error" -> "throw"
      [] resp = "http_error"    -> Null
      [] resp = "html_body"     -> "throw"
      [] resp = "empty"         -> Null
      [] resp = "nan"           -> "NaN,NaN"
      [] OTHER                  -> "-37.81,144.96"

\* geocode(query), lines 74-91: the coordinates, "null", or "throw" when the
\* fetch rejects or res.json() fails on a body that is not JSON.
Geocode(resp) ==
    CASE resp = "network_error" -> "throw"
      [] resp = "http_error"    -> Null
      [] resp = "html_body"     -> "throw"
      [] resp = "empty"         -> Null
      [] resp = "nan"           -> Null
      [] OTHER                  -> GeocodedCoords

IsResult(r) == r # Null /\ r # "throw"

\* !s.coords || s.coords.length !== 2 (lines 110 and 157)
LacksCoords(sub) == sub.coords = Null \/ sub.coords = "[lat]"

\* Lines 109-111: the names of the suburbs lacking coordinates, in key order.
MissingCoords(data) ==
    SelectSeq(data.keys, LAMBDA n : LacksCoords(data.suburbs[n]))

Reverse(seq) == [k \in 1..Len(seq) |-> seq[Len(seq) + 1 - k]]

\* Line 113 handing the names over last to first.
ToProcessBackwards(data, c) ==
    Reverse(SelectSeq(MissingCoords(data), LAMBDA n : n \notin DOMAIN c))

\* Line 113 without its filter.
ToProcessIgnoringCache(data, c) == MissingCoords(data)

\* Line 113: missing.filter(name => !cache[name])
ToProcess(data, c) ==
    SelectSeq(MissingCoords(data), LAMBDA n : n \notin DOMAIN c)

\* mergeCacheIntoSuburbs without the test of line 157.
MergeCacheOverwriting(data, c) ==
    [data EXCEPT !.suburbs =
        [n \in DOMAIN data.suburbs |->
            IF n \in DOMAIN c
            THEN [data.suburbs[n] EXCEPT !.coords = c[n]]
            ELSE data.suburbs[n]]]

\* mergeCacheIntoSuburbs, lines 153-164.
MergeCacheIntoSuburbs(data, c) ==
    [data EXCEPT !.suburbs =
        [n \in DOMAIN data.suburbs |->
            IF n \in DOMAIN c /\ LacksCoords(data.suburbs[n])
            THEN [data.suburbs[n] EXCEPT !.coords = c[n]]
            ELSE data.suburbs[n]]]

\* The query string of line 130.
QueryOf(name) == name \o ", Victoria, Australia"

\* Line 134 keyed by the query sent instead of the suburb's name.
CachePutUnderQuery(c, name, result) ==
    IF IsResult(result) THEN (QueryOf(name) :> result) @@ c ELSE c

\* Line 134 without the test of line 133.
CachePutAnything(c, name, result) == (name :> result) @@ c

\* Lines 133-134: if (result) cache[name] = result.
CachePut(c, name, result) ==
    IF IsResult(result) THEN (name :> result) @@ c ELSE c

\* Line 135: after a result the whole cache in memory is written to
\* data/geocode-cache.json; this is the file after the call returned.
CacheFileAfter(c, cfile, result) ==
    IF IsResult(result) THEN c ELSE cfile

\* const DELAY_MS = 1100 (line 60), in ms.
DELAY_MS == 1100

Max(a, b) == IF a >= b THEN a ELSE b

\* Line 144 with the sleep skipped after a call that threw.
SleepDueUnlessThrown(k, n, result) == k < n /\ result # "throw"

\* Line 144: if (i < total - 1) await sleep(DELAY_MS), whatever the call
\* returned; k is the script's i + 1.
SleepDue(k, n, result) == k < n

\* The batch script runs, alone ("geocode") or next to the server ("rate").
GeocodeStage == stage \in {"geocode", "rate"}

\* main() up to its first await, lines 93-132.
GeocodeStart ==
    /\ GeocodeStage
    /\ CanStart
    /\ LET data == suburbsFile
           todo == ToProcess(data, cacheFile)
           tot  == TotalOf(limit, todo)
        IN /\ cache' = cacheFile
           /\ toProcess' = todo
           /\ total' = tot
           /\ prev' = ThisRun(pc = "crashed")
           /\ run' = run + 1
           /\ results' = {}
           /\ saved' = {}
           /\ IF tot = 0
              THEN \* lines 119-125: nothing to do, merge the cache and write
                   /\ suburbs' = MergeCacheIntoSuburbs(data, cacheFile)
                   /\ suburbsFile' = StringifySuburbs(suburbs')
                   /\ writesAt' = <<0>>
                   /\ calls' = NoCalls(data)
                   /\ geoStarts' = <<>>
                   /\ i' = 0
                   /\ pc' = "done"
              ELSE \* line 132: the first geocode call is issued
                   /\ suburbs' = data
                   /\ suburbsFile' = suburbsFile
                   /\ writesAt' = <<>>
                   /\ calls' = [NoCalls(data) EXCEPT ![todo[1]] = 1]
                   /\ geoStarts' = <<clock>>
                   /\ i' = 1
                   /\ pc' = "call"
    /\ UNCHANGED <<wake, transit, reivVars, stage, mergeVars, cacheFile, variant,
                   limit, upstream, file0>>

\* The geocode call of record i returns (lines 132-143); then the sleep of
\* line 144 starts or, after the last record, lines 147-150 run.
GeocodeReturns ==
    /\ GeocodeStage
    /\ pc = "call"
    /\ \E resp \in upstream[toProcess[i]] :
        LET name == toProcess[i]
            result == Geocode(resp)
        IN /\ cache' = CachePut(cache, name, result)
           /\ cacheFile' = CacheFileAfter(cache', cacheFile, result)
           /\ results' = IF resp = "match" THEN results \cup {name} ELSE results
           /\ saved' = IF resp = "match" /\ name \in DOMAIN cacheFile'
                       THEN saved \cup {name} ELSE saved
           /\ IF i < total
              THEN \* line 144: the timer is set, or skipped when not due
                   /\ pc' = "sleep"
                   /\ wake' = IF SleepDue(i, total, result)
                              THEN clock + DELAY_MS ELSE clock
                   /\ UNCHANGED <<suburbs, suburbsFile, writesAt>>
              ELSE /\ suburbs' = MergeCacheIntoSuburbs(suburbs, cache')
                   /\ suburbsFile' = StringifySuburbs(suburbs')
                   /\ writesAt' = Append(writesAt, i)
                   /\ wake' = wake
                   /\ pc' = "done"
    /\ UNCHANGED <<geoStarts, transit, reivVars, stage, mergeVars, variant, limit,
                   toProcess, total, i, upstream, run, calls, prev, file0>>

\* await sleep(DELAY_MS) of line 144 ends and the next call is issued. The
\* timer of lines 62-64 does not fire before its delay has passed: the step
\* happens at time wake, or later if that time had passed already.
GeocodeSleepEnds ==
    /\ GeocodeStage
    /\ pc = "sleep"
    /\ clock' = Max(clock, wake)
    /\ geoStarts' = Append(geoStarts, clock')
    /\ i' = i + 1
    /\ calls' = [calls EXCEPT ![toProcess[i + 1]] = @ + 1]
    /\ pc' = "call"
    /\ UNCHANGED <<wake, transit, reivCache, ticks, reqs, stage, suburbsFile, mergeVars, cacheFile, variant, limit,
                   suburbs, cache, toProcess, total, upstream, run, results,
                   saved, writesAt, prev, file0>>

\* The process is killed while main() is suspended: what it held in memory
\* is gone, the files stay as they are.
Crash ==
    /\ stage \in {"geocode", "price"}
    /\ pc \in {"call", "sleep", "closing"}
    /\ pc' = "crashed"
    /\ suburbs' = Null
    /\ cache' = EmptyMap
    /\ i' = 0
    /\ UNCHANGED <<gateVars, reivVars, stage, suburbsFile, mergeVars, cacheFile, variant, limit,
                   toProcess, total, upstream, histVars, file0>>

(***************************************************************************)
(* Inputs of geocode-fill                                                  *)
(***************************************************************************)

GeoKeys == <<"Kew", "Lara", "Tarneit">>
GeoNames == Range(GeoKeys)

GeoSuburbRecords ==
    [medianPrice : {Null}, medianPriceUnit : {Null}, annualChange : {Null},
     salesCount : {Null}, priceHistory2025 : {Absent},
     coords : {Null, "-37.80,145.03"},
     reivSlug : {"slug"}]

\* What Nominatim answers for a name: always a match, never one (no match, or
\* the service failing), or one or the other from call to call.
GeoUpstreams ==
    {{"match"}, NominatimResponses \ {"match"}, NominatimResponses}

InitGeocode ==
    /\ GateUnused
    /\ ReivUnused
    /\ stage = "geocode"
    /\ suburbsFile \in [keys : {GeoKeys},
                        suburbs : [GeoNames -> GeoSuburbRecords],
                        notes : {<<"orig">>}]
    /\ \E S \in SUBSET GeoNames : cacheFile = [n \in S |-> "-37.79,145.01"]
    /\ upstream \in [GeoNames -> GeoUpstreams]
    /\ vpsrFile = EmptyMap /\ mergeRuns = 0 /\ fileBefore = Null
    /\ pc = "idle" /\ variant = "none" /\ limit \in 0..MaxLimit
    /\ suburbs = Null /\ cache = EmptyMap /\ toProcess = <<>>
    /\ total = 0 /\ i = 0
    /\ run = 0 /\ calls = EmptyMap /\ results = {} /\ saved = {}
    /\ writesAt = <<>> /\ prev = NoPrev
    /\ file0 = suburbsFile

NextGeocode == GeocodeStart \/ GeocodeReturns \/ GeocodeSleepEnds \/ Crash

SpecGeocode == InitGeocode /\ [][NextGeocode]_vars

(***************************************************************************)
(* scripts/fetch-reiv-prices.js and scripts/fetch-reiv-prices-with-units.js *)
(***************************************************************************)

\* What loading a REIV suburb page may give: the request fails, the status is
\* not 2xx, or a page from which the prices below can be read.
ReivPage(mp, unit, change) ==
    [status |-> "ok", medianPrice |-> mp, medianPriceUnit |-> unit,
     annualChange |-> change]
ReivFailure(status) ==
    [status |-> status, medianPrice |-> Null, medianPriceUnit |-> Null,
     annualChange |-> Null]

\* What the lookup hands to main(): kind "throw" (an exception reaches the
\* try/catch of main), "null", "error" (result._error) or "data".
LookupResult(kind, mp, unit, change) ==
    [kind |-> kind, medianPrice |-> mp, medianPriceUnit |-> unit,
     annualChange |-> change]

\* fetchREIVPrices(slug), fetch-reiv-prices.js lines 34-59: the unit median is
\* never read from the static page (line 55).
FetchREIVPrices(resp) ==
    CASE resp.status = "network_error" -> LookupResult("throw", Null, Null, Null)
      [] resp.status = "http_error"    -> LookupResult("null", Null, Null, Null)
      [] OTHER -> LookupResult("data", resp.medianPrice, Null, resp.annualChange)

\* fetchREIVHouseAndUnitWithPuppeteer(page, slug), lines 32-92 of the
\* with-units script: a failing page.goto is caught and reported as _error; a
\* page of any status is read, and an error page shows no prices.
FetchREIVHouseAndUnitWithPuppeteer(resp) ==
    CASE resp.status = "network_error" -> LookupResult("error", Null, Null, Null)
      [] resp.status = "http_error"    -> LookupResult("data", Null, Null, Null)
      [] OTHER -> LookupResult("data", resp.medianPrice, resp.medianPriceUnit,
                               resp.annualChange)

Lookup(v, resp) ==
    IF v = "html" THEN FetchREIVPrices(resp)
    ELSE FetchREIVHouseAndUnitWithPuppeteer(resp)

\* Lines 89 / 137: the record is updated when a price came back.
HasData(d) ==
    d.kind = "data" /\ (d.medianPrice # Null \/ d.medianPriceUnit # Null)

\* Lines 90-96 / 138-144: the update of one record.
ApplyPrices(sub, d) ==
    [sub EXCEPT
        !.medianPrice = IF d.medianPrice # Null THEN d.medianPrice ELSE @,
        !.priceHistory2025 = IF d.medianPrice # Null /\ sub.priceHistory2025 # NoHistory
                             THEN d.medianPrice ELSE @,
        !.medianPriceUnit = IF d.medianPriceUnit # Null THEN d.medianPriceUnit ELSE @,
        !.annualChange = IF d.annualChange # Null THEN d.annualChange ELSE @]

\* The filter of lines 70-73 without its medianPrice test.
MissingPriceAnySlug(data) ==
    SelectSeq(data.keys, LAMBDA n : data.suburbs[n].reivSlug \notin {Null, ""})

\* Lines 70-73 / 111-114: s.reivSlug && s.medianPrice == null, in key order.
MissingPrice(data) ==
    SelectSeq(data.keys,
              LAMBDA n : /\ data.suburbs[n].reivSlug \notin {Null, ""}
                         /\ data.suburbs[n].medianPrice = Null)

\* The checkpoint interval of lines 105 / 150.
SAVE_EVERY == 20

\* An off-by-one in the test of line 105: the index before the increment.
CheckpointDueOffByOne(k) == k > 1 /\ (k - 1) % SAVE_EVERY = 0

\* The checkpoint of line 105 left out: only the final write remains.
CheckpointNever(k) == FALSE

\* (i + 1) % 20 === 0 with the script's i counted from 0; k counts from 1.
CheckpointDue(k) == k % SAVE_EVERY = 0

\* Lines 112-113 / 158-159: the earlier "Prices from REIV ..." sentence is
\* removed from metadata.notes and this script's sentence appended.
PriceNotes(notes, v) ==
    Append(SelectSeq(notes, LAMBDA t : t \notin {"prices-reiv", "prices-reiv-units"}),
           IF v = "html" THEN "prices-reiv" ELSE "prices-reiv-units")

\* main() up to its first await.
PriceStart ==
    /\ stage = "price"
    /\ CanStart
    /\ LET data == suburbsFile
           todo == MissingPrice(data)
           tot  == TotalOf(limit, todo)
        IN /\ toProcess' = todo
           /\ total' = tot
           /\ prev' = ThisRun(pc = "crashed")
           /\ run' = run + 1
           /\ results' = {}
           /\ saved' = {}
           /\ writesAt' = <<>>
           /\ suburbs' = data
           /\ IF tot = 0
              THEN \* "Nothing to do.": main returns, nothing is written
                   /\ calls' = NoCalls(data)
                   /\ i' = 0
                   /\ pc' = "done"
              ELSE /\ calls' = [NoCalls(data) EXCEPT ![todo[1]] = 1]
                   /\ i' = 1
                   /\ pc' = "call"
    /\ UNCHANGED <<gateVars, reivVars, stage, suburbsFile, mergeVars, cacheFile, variant, limit,
                   cache, upstream, file0>>

\* The dataset in memory after the last record, written by lines 112-114.
FinalData(data, v) == [data EXCEPT !.notes = PriceNotes(data.notes, v)]

\* The lookup of record i returns; the record is updated (lines 88-104), the
\* checkpoint of line 105 is written when due, and then the sleep starts or,
\* after the last record, the loop is left.
PriceReturns ==
    /\ stage = "price"
    /\ pc = "call"
    /\ \E resp \in upstream[toProcess[i]] :
        LET name == toProcess[i]
            d == Lookup(variant, resp)
            mem == IF HasData(d)
                   THEN [suburbs EXCEPT !.suburbs[name] = ApplyPrices(@, d)]
                   ELSE suburbs
            res == IF HasData(d) THEN results \cup {name} ELSE results
            due == CheckpointDue(i)
            last == i = total
            final == last /\ variant = "html"
            priced == {n \in res : mem.suburbs[n].medianPrice # Null}
        IN /\ results' = res
           /\ suburbs' = IF final THEN FinalData(mem, variant) ELSE mem
           /\ suburbsFile' = IF final \/ due THEN StringifySuburbs(suburbs')
                             ELSE suburbsFile
           /\ writesAt' = writesAt \o (IF due THEN <<i>> ELSE <<>>)
                                   \o (IF final THEN <<i>> ELSE <<>>)
           /\ saved' = IF final \/ due THEN priced ELSE saved
           /\ pc' = IF ~last THEN "sleep"
                    ELSE IF variant = "html" THEN "done" ELSE "closing"
    /\ UNCHANGED <<gateVars, reivVars, stage, mergeVars, cacheFile, variant, limit, cache,
                   toProcess, total, i, upstream, run, calls, prev, file0>>

\* await sleep(REIV_DELAY_MS) ends and the next lookup is issued.
PriceSleepEnds ==
    /\ stage = "price"
    /\ pc = "sleep"
    /\ i' = i + 1
    /\ calls' = [calls EXCEPT ![toProcess[i + 1]] = @ + 1]
    /\ pc' = "call"
    /\ UNCHANGED <<gateVars, reivVars, stage, suburbsFile, mergeVars, cacheFile, variant, limit,
                   suburbs, cache, toProcess, total, upstream, run, results,
                   saved, writesAt, prev, file0>>

\* with-units script, lines 157-160: await browser.close() ends, the notes
\* are set and the dataset is written.
PriceBrowserClosed ==
    /\ stage = "price"
    /\ pc = "closing"
    /\ suburbs' = FinalData(suburbs, variant)
    /\ suburbsFile' = StringifySuburbs(suburbs')
    /\ writesAt' = Append(writesAt, i)
    /\ saved' = {n \in results : suburbs.suburbs[n].medianPrice # Null}
    /\ pc' = "done"
    /\ UNCHANGED <<gateVars, reivVars, stage, mergeVars, cacheFile, variant, limit, cache,
                   toProcess, total, i, upstream, run, calls, results, prev, file0>>

(***************************************************************************)
(* Inputs of price-fill                                                    *)
(***************************************************************************)

\* The suburbs of the price-fill dataset are numbered in key order.
PriceKeys == [k \in 1..PriceSuburbs |-> k]

Stub ==
    [medianPrice |-> Null, medianPriceUnit |-> Null, annualChange |-> Null,
     salesCount |-> Null, priceHistory2025 |-> Absent, coords |-> Null,
     reivSlug |-> "slug"]

\* Every suburb an unresolved stub with a slug.
AllStubs == [k \in 1..PriceSuburbs |-> Stub]

\* Every third suburb already priced, some without a slug, some without a
\* priceHistory object.
PartlyPriced ==
    [k \in 1..PriceSuburbs |->
        [Stub EXCEPT !.medianPrice = IF k % 3 = 0 THEN OldPrice ELSE Null,
                     !.medianPriceUnit = IF k % 6 = 0 THEN "480000" ELSE Null,
                     !.reivSlug = IF k % 7 = 0 THEN Null
                                  ELSE IF k % 11 = 0 THEN "" ELSE "slug",
                     !.priceHistory2025 = IF k % 5 = 0 THEN NoHistory ELSE Absent]]

FullPage == ReivPage("810000", "520000", "9.7")

ReivResponses ==
    {FullPage, ReivPage("810000", Null, Null), ReivPage(Null, "520000", "9.7"),
     ReivPage(Null, Null, "9.7"), ReivPage(Null, Null, Null),
     ReivFailure("http_error"), ReivFailure("network_error")}

\* REIV has a full page for every suburb.
AllPages == [k \in 1..PriceSuburbs |-> {FullPage}]

\* A fixed mix of pages and failures.
MixedPages ==
    [k \in 1..PriceSuburbs |->
        CASE k % 5 = 0 -> {ReivFailure("network_error")}
          [] k % 5 = 1 -> {FullPage}
          [] k % 5 = 2 -> {ReivPage(Null, "520000", "9.7")}
          [] k % 5 = 3 -> {ReivFailure("http_error")}
          [] OTHER     -> {ReivPage(Null, Null, "9.7")}]

\* Anything at all for the first suburb, a full page for the others.
AnyThenPages == [k \in 1..PriceSuburbs |-> IF k <= 1 THEN ReivResponses ELSE {FullPage}]

PriceInputs ==
    { [data |-> AllStubs, site |-> AllPages],
      [data |-> PartlyPriced, site |-> MixedPages],
      [data |-> AllStubs, site |-> AnyThenPages] }

InitPrice ==
    /\ GateUnused
    /\ ReivUnused
    /\ stage = "price"
    /\ \E in \in PriceInputs :
          /\ suburbsFile = [keys |-> PriceKeys, suburbs |-> in.data, notes |-> <<"vpsr">>]
          /\ upstream = in.site
    /\ variant \in {"html", "puppeteer"}
    /\ cacheFile = EmptyMap
    /\ vpsrFile = EmptyMap /\ mergeRuns = 0 /\ fileBefore = Null
    /\ pc = "idle" /\ limit \in 0..MaxLimit
    /\ suburbs = Null /\ cache = EmptyMap /\ toProcess = <<>>
    /\ total = 0 /\ i = 0
    /\ run = 0 /\ calls = EmptyMap /\ results = {} /\ saved = {}
    /\ writesAt = <<>> /\ prev = NoPrev
    /\ file0 = suburbsFile

NextPrice == PriceStart \/ PriceReturns \/ PriceSleepEnds \/ PriceBrowserClosed \/ Crash

SpecPrice == InitPrice /\ [][NextPrice]_vars

\* Either batch stage: one of the two scripts is run, again and again.
InitBatch == InitGeocode \/ InitPrice

NextBatch ==
    \/ GeocodeStart \/ GeocodeReturns \/ GeocodeSleepEnds
    \/ PriceStart \/ PriceReturns \/ PriceSleepEnds \/ PriceBrowserClosed
    \/ Crash

SpecBatch == InitBatch /\ [][NextBatch]_vars

(***************************************************************************)
(* Claims about the merge stage (SpecMerge)                                *)
(***************************************************************************)

HasRow(n) == n \in DOMAIN VpsrData(vpsrFile)

PriceFields(sub) ==
    <<sub.medianPrice, sub.medianPriceUnit, sub.annualChange, sub.salesCount,
      sub.priceHistory2025>>

\* C1: running the merge a second time with the same report leaves the
\* persisted dataset exactly as the first run wrote it: the same keys, the
\* same values of every suburb, the same metadata.
C1_MergeIdempotent ==
    mergeRuns >= 2 => suburbsFile = fileBefore

\* C1, the case: a second run over a dataset that the first run changed, with
\* a suburb that has a report row and one that has none.
C1_Witness ==
    /\ mergeRuns = 2
    /\ suburbsFile # file0
    /\ \E n, m \in DOMAIN suburbsFile.suburbs : HasRow(n) /\ ~HasRow(m)

\* C2: a suburb with no report row keeps medianPrice, medianPriceUnit,
\* annualChange, salesCount and its 2025 priceHistory entry through a merge.
C2_NoRowKeepsValues ==
    mergeRuns >= 1 =>
        \A n \in DOMAIN suburbsFile.suburbs :
            ~HasRow(n) =>
                PriceFields(suburbsFile.suburbs[n]) = PriceFields(fileBefore.suburbs[n])

\* C3 as stated: after a merge a suburb with a report row holds the row's
\* medianPrice, medianPriceUnit, annualChange and salesCount, whatever it held
\* before, and its 2025 priceHistory entry is the row's medianPrice.
C3_AllFourOverwritten ==
    mergeRuns >= 1 =>
        \A n \in DOMAIN suburbsFile.suburbs :
            HasRow(n) =>
                LET sub == suburbsFile.suburbs[n]
                    row == vpsrFile[n]
                IN /\ sub.medianPrice = row.medianPrice
                   /\ sub.medianPriceUnit = row.medianPriceUnit
                   /\ sub.annualChange = row.annualChange
                   /\ sub.salesCount = row.salesCount
                   /\ sub.priceHistory2025 = row.medianPrice

\* C3 as amended: after a merge a suburb with a report row holds, for each of
\* the four fields, the row's value when the row has one and its own earlier
\* value when the row has none; its 2025 priceHistory entry is the row's
\* medianPrice when the record has a priceHistory object and the row a
\* medianPrice, and is unchanged otherwise.
C3_RowValuesOverwriteWherePresent ==
    mergeRuns >= 1 =>
        \A n \in DOMAIN suburbsFile.suburbs :
            HasRow(n) =>
                LET sub == suburbsFile.suburbs[n]
                    old == fileBefore.suburbs[n]
                    row == vpsrFile[n]
                    Merged(new, was) == IF new # Null THEN new ELSE was
                IN /\ sub.medianPrice = Merged(row.medianPrice, old.medianPrice)
                   /\ sub.medianPriceUnit = Merged(row.medianPriceUnit, old.medianPriceUnit)
                   /\ sub.annualChange = Merged(row.annualChange, old.annualChange)
                   /\ sub.salesCount = Merged(row.salesCount, old.salesCount)
                   /\ sub.priceHistory2025 =
                        IF old.priceHistory2025 # NoHistory /\ row.medianPrice # Null
                        THEN row.medianPrice ELSE old.priceHistory2025

\* C3, the case: a first merge of a suburb whose row has a sales count other
\* than the suburb's and no unit price, the suburb having one.
C3_Witness ==
    /\ mergeRuns = 1
    /\ \E n \in DOMAIN suburbsFile.suburbs :
          /\ HasRow(n)
          /\ vpsrFile[n].salesCount # Null
          /\ fileBefore.suburbs[n].salesCount \notin {Null, vpsrFile[n].salesCount}
          /\ vpsrFile[n].medianPriceUnit = Null
          /\ fileBefore.suburbs[n].medianPriceUnit # Null
          /\ suburbsFile.suburbs[n].salesCount = vpsrFile[n].salesCount

(***************************************************************************)
(* Claims about the batch stages (SpecGeocode, SpecPrice, SpecBatch)       *)
(***************************************************************************)

Running == pc \in {"call", "sleep", "closing"}

\* Two runs in succession, neither interrupted, the second one over.
TwoRunsDone == run >= 2 /\ pc = "done" /\ ~prev.crashed

\* C4 as stated: of two geocode-fill runs in succession the first issues one
\* call for each suburb lacking coordinates (and not cached yet) and the second
\* issues none, whatever the geocoder answered.
C4_OneCallPerSuburbWhateverOutcome ==
    (stage = "geocode" /\ TwoRunsDone /\ limit = NoLimit) =>
        \A n \in Range(prev.toProcess) : prev.calls[n] = 1 /\ calls[n] = 0

\* C4 as amended: of two geocode-fill runs in succession no run calls the
\* geocoder twice for a suburb, and the second run issues no call for a suburb
\* whose first-run call returned a result; without --limit the first run
\* issues one call for each suburb lacking coordinates and not cached, and the
\* second run issues one call again for each of them whose first-run call
\* returned no result or raised an error.
C4_OneCallPerResolvedSuburb ==
    (stage = "geocode" /\ TwoRunsDone) =>
        \A n \in DOMAIN calls :
            /\ prev.calls[n] <= 1 /\ calls[n] <= 1
            /\ n \in prev.results => calls[n] = 0
            /\ limit = NoLimit =>
                  /\ n \in Range(prev.toProcess) => prev.calls[n] = 1
                  /\ n \in Range(prev.toProcess) \ prev.results => calls[n] = 1

\* C4, the case: two runs without --limit, a suburb resolved by the first run
\* and one whose first call gave nothing.
C4_Witness ==
    /\ stage = "geocode" /\ TwoRunsDone /\ limit = NoLimit
    /\ \E n \in prev.results : calls[n] = 0
    /\ \E m \in Range(prev.toProcess) \ prev.results : prev.calls[m] = 1 /\ calls[m] = 1

\* The persisted dataset names each suburb once and holds no record whose
\* price update is half applied: a medianPrice other than the one the record
\* started with comes with its 2025 priceHistory entry.
DatasetWellFormed ==
    /\ \A j, k \in DOMAIN suburbsFile.keys :
          suburbsFile.keys[j] = suburbsFile.keys[k] => j = k
    /\ DOMAIN suburbsFile.suburbs = Range(suburbsFile.keys)
    /\ \A n \in DOMAIN suburbsFile.suburbs :
          LET r  == suburbsFile.suburbs[n]
              r0 == file0.suburbs[n]
          IN r.medianPrice # r0.medianPrice =>
                r.priceHistory2025 =
                    IF r0.priceHistory2025 = NoHistory THEN NoHistory ELSE r.medianPrice

\* C5 as stated: after an interrupted run of a batch stage and a restart, no
\* suburb whose lookup returned a value in the interrupted run is looked up
\* again, and the persisted dataset is well formed.
C5_NoReturnedValueLookedUpAgain ==
    /\ prev.crashed => \A n \in prev.results : calls[n] = 0
    /\ stage \in {"geocode", "price"} => DatasetWellFormed

\* C5 as amended: after an interrupted run and a restart, no suburb whose
\* value had reached durable storage before the interruption is looked up
\* again: in geocode-fill that is every suburb whose lookup returned
\* coordinates (the cache file is written at once), in price-fill every suburb
\* whose medianPrice was written by a checkpoint. The persisted dataset is
\* well formed.
C5_NoSavedValueLookedUpAgain ==
    /\ prev.crashed => \A n \in prev.saved : calls[n] = 0
    /\ stage = "geocode" => saved = results /\ prev.saved = prev.results
    /\ stage \in {"geocode", "price"} => DatasetWellFormed

\* C5, the case: price-fill was interrupted after a checkpoint with later
\* results not yet written, was restarted and ran to its end.
C5_Witness ==
    /\ stage = "price" /\ prev.crashed /\ pc = "done"
    /\ prev.saved # {}
    /\ prev.results \ prev.saved # {}
    /\ \E n \in prev.results \ prev.saved : calls[n] = 1

\* The records a crash would lose now: those whose value in memory is not the
\* one in durable storage (the dataset file, the geocode cache file).
Unsaved ==
    IF ~(Running \/ pc = "done") THEN {}
    ELSE {n \in DOMAIN suburbs.suburbs : suburbs.suburbs[n] # suburbsFile.suburbs[n]}
         \cup {n \in DOMAIN cache : n \notin DOMAIN cacheFile}

\* C6 as stated: at any moment at most one record is updated in memory and
\* not yet in durable storage.
C6_AtMostOneUnsaved ==
    Cardinality(Unsaved) <= 1

\* C6 as amended: between two steps geocode-fill holds no record that is not
\* in durable storage, and price-fill holds fewer than 20 (at most 19), the
\* records processed since the last checkpoint.
C6_UnsavedBelowCheckpointInterval ==
    /\ stage = "geocode" => Unsaved = {}
    /\ stage = "price" => /\ Cardinality(Unsaved) <= SAVE_EVERY - 1
                          /\ Running => Unsaved \subseteq results \ saved

\* C6, the case: price-fill holds 19 updated records that no write has saved.
C6_Witness ==
    stage = "price" /\ pc = "sleep" /\ Cardinality(Unsaved) = SAVE_EVERY - 1

\* The records processed so far in this run.
Processed == IF pc = "call" THEN i - 1 ELSE i

\* The writes a run has made when k records are processed: one at every 20th.
Checkpoints(k) == [j \in 1..(k \div SAVE_EVERY) |-> j * SAVE_EVERY]

\* C7 as stated: price-fill writes the dataset after every 20th processed
\* record, updated or not, and once more when the run ends, and never with a
\* record half updated.
C7_CheckpointEvery20AndAtEnd ==
    stage = "price" =>
        /\ Running => writesAt = Checkpoints(Processed)
        /\ pc = "done" => writesAt = Checkpoints(total) \o <<total>>
        /\ DatasetWellFormed

\* C7 as amended: price-fill writes the dataset after every 20th processed
\* record, updated or not, and once more when a run that had at least one
\* record to process ends; a run with nothing to process writes nothing. No
\* write happens with a record half updated.
C7_CheckpointEvery20AndAtEndOfNonEmptyRun ==
    stage = "price" =>
        /\ Running => writesAt = Checkpoints(Processed)
        /\ (pc = "done" /\ total > 0) => writesAt = Checkpoints(total) \o <<total>>
        /\ (pc = "done" /\ total = 0) => writesAt = <<>>
        /\ pc = "closing" => writesAt = Checkpoints(total)
        /\ DatasetWellFormed

\* C7, the case: a run of more than 20 records, some of them not updated, has
\* ended with the checkpoint at 20 and the final write.
C7_Witness ==
    /\ stage = "price" /\ pc = "done" /\ total > SAVE_EVERY
    /\ writesAt = <<SAVE_EVERY, total>>
    /\ Cardinality(results) < total

(***************************************************************************)
(* server.js: the REIV suburb price resolver and its endpoint              *)
(* (lines 416-483)                                                         *)
(***************************************************************************)

\* const REIV_CACHE_TTL_MS = 5 * 60 * 1000 (line 418), in ms.
REIV_CACHE_TTL_MS == 5 * 60 * 1000

\* What fetchREIVSuburbPrices returns at line 441: null.
NullData == [null |-> TRUE]

\* The text of a price as the page prints it, and the number read from it
\* (lines 420-430 and 451-455): "$1mil" is 1000000, "$643k" is 643000.
ParsePriceFromText(text) ==
    CASE text = "$1mil" -> "1000000"
      [] text = "$1.2mil" -> "1200000"
      [] text = "$643k" -> "643000"
      [] OTHER -> Null

\* Lines 444-465: the result object read from the page; a part the page does
\* not show stays null.
ParseSuburbPage(html) ==
    [medianPrice |-> ParsePriceFromText(html.sale),
     medianPriceUnit |-> ParsePriceFromText(html.units),
     quarterlyChange |-> IF html.change = "" THEN Null ELSE html.change,
     source |-> "reiv"]

\* Line 435 with the comparison made inclusive.
CacheFreshInclusive(age) == age <= REIV_CACHE_TTL_MS

\* Line 435: (now - cached.at) < REIV_CACHE_TTL_MS.
CacheFresh(age) == age < REIV_CACHE_TTL_MS

\* Lines 477-478 answering 200 whatever the resolver returned.
HandlerStatusAlwaysOk(data) == 200

\* Lines 477-478: if (!data) 404, else the data with status 200.
HandlerStatus(data) == IF data = NullData THEN 404 ELSE 200

\* Line 467: reivCache.set(slug, { data: result, at: now }), now being the
\* time read at line 433.
CacheSet(c, slug, result, now) ==
    (slug :> [data |-> result, at |-> now]) @@ c

\* A request arrives (lines 471-476) and the resolver runs to its first await
\* (lines 433-438): an empty slug is answered 400; a fresh cache entry is
\* returned at once; otherwise a fetch is issued.
ReivRequest(c, slug) ==
    /\ stage = "reiv"
    /\ reqs[c].pc = "idle"
    /\ \A b \in 1..(c - 1) : reqs[b].pc # "idle"
    /\ LET cached == slug \in DOMAIN reivCache
           age == IF cached THEN clock - reivCache[slug].at ELSE 0
           base == [IdleReq EXCEPT !.slug = slug, !.t0 = clock,
                                   !.hadEntry = cached, !.age = age]
       IN reqs' = [reqs EXCEPT ![c] =
             IF slug = ""
             THEN [base EXCEPT !.pc = "done", !.status = 400]
             ELSE IF cached /\ CacheFresh(age)
             THEN [base EXCEPT !.pc = "done", !.hit = TRUE,
                               !.data = reivCache[slug].data,
                               !.status = HandlerStatus(reivCache[slug].data)]
             ELSE [base EXCEPT !.pc = "fetch", !.fetched = TRUE]]
    /\ UNCHANGED <<gateVars, stage, suburbsFile, mergeVars, batchVars, reivCache, clock, ticks>>

\* The fetch of line 438 settles: a non-2xx response makes the resolver return
\* null (line 441) and the handler answer 404 (line 477); a rejected fetch
\* is caught by the handler, which answers 502 (lines 479-481); a 2xx
\* response leads to the await of line 442.
ReivFetchReturns(c, res) ==
    /\ stage = "reiv"
    /\ reqs[c].pc = "fetch"
    /\ reqs' = [reqs EXCEPT ![c] =
          CASE res = "ok" -> [@ EXCEPT !.pc = "text", !.res = res]
            [] res = "not ok" -> [@ EXCEPT !.pc = "done", !.res = res,
                                           !.data = NullData,
                                           !.status = HandlerStatus(NullData)]
            [] OTHER -> [@ EXCEPT !.pc = "done", !.res = res, !.status = 502]]
    /\ UNCHANGED <<gateVars, stage, suburbsFile, mergeVars, batchVars, reivCache, clock, ticks>>

\* The body of the page arrives (line 442): it is parsed, the result is put
\* in the cache and returned (lines 444-468), and the handler answers 200.
ReivTextReturns(c, html) ==
    /\ stage = "reiv"
    /\ reqs[c].pc = "text"
    /\ LET result == ParseSuburbPage(html)
       IN /\ reivCache' = CacheSet(reivCache, reqs[c].slug, result, reqs[c].t0)
          /\ reqs' = [reqs EXCEPT ![c] =
                [@ EXCEPT !.pc = "done", !.data = result,
                          !.status = HandlerStatus(result)]]
    /\ UNCHANGED <<gateVars, stage, suburbsFile, mergeVars, batchVars, clock, ticks>>

\* Time passes between two steps of the server.
Tick(d) ==
    /\ stage \in {"reiv", "rate"}
    /\ ticks < MaxTicks
    /\ clock' = clock + d
    /\ ticks' = ticks + 1
    /\ UNCHANGED <<gateVars, stage, suburbsFile, mergeVars, batchVars, reivCache, reqs>>

\* The slugs requested; the empty one is the request line 473 rejects.
Slugs == {"kew", "lara", ""}

\* Pages REIV serves: with all three figures, and with none.
SuburbPages ==
    {[sale |-> "$1mil", units |-> "$643k", change |-> "9.7"],
     [sale |-> "", units |-> "", change |-> ""]}

\* How a fetch settles: response.ok, a non-2xx status, a network error.
FetchOutcomes == {"ok", "not ok", "rejected"}

\* Steps of the clock: a moment, one moment less than the TTL, the TTL.
TickSteps == {1, REIV_CACHE_TTL_MS - 1, REIV_CACHE_TTL_MS}

InitReiv ==
    /\ GateUnused
    /\ stage = "reiv"
    /\ suburbsFile = [keys |-> <<>>, suburbs |-> EmptyMap, notes |-> <<>>]
    /\ vpsrFile = EmptyMap
    /\ mergeRuns = 0
    /\ fileBefore = suburbsFile
    /\ file0 = suburbsFile
    /\ BatchUnused
    /\ ReivUnused

NextReiv ==
    \/ \E c \in 1..MaxCalls, slug \in Slugs : ReivRequest(c, slug)
    \/ \E c \in 1..MaxCalls, res \in FetchOutcomes : ReivFetchReturns(c, res)
    \/ \E c \in 1..MaxCalls, html \in SuburbPages : ReivTextReturns(c, html)
    \/ \E d \in TickSteps : Tick(d)

SpecReiv == InitReiv /\ [][NextReiv]_vars

(***************************************************************************)
(* Claims about the resolver (SpecReiv)                                    *)
(***************************************************************************)

Calls == 1..MaxCalls

\* Calls a and b are for the same slug and b started inside the TTL window
\* that a's start opened.
SameWindow(a, b) ==
    /\ a # b
    /\ reqs[a].slug # "" /\ reqs[a].slug = reqs[b].slug
    /\ reqs[a].pc # "idle" /\ reqs[b].pc # "idle"
    /\ reqs[a].t0 <= reqs[b].t0
    /\ reqs[b].t0 - reqs[a].t0 < REIV_CACHE_TTL_MS

\* C8: of two resolver calls for one slug inside the TTL window, both
\* answered with data, only one fetched upstream, also when the second
\* started while the first was awaiting its fetch.
C8_OneFetchPerSlugInWindow ==
    \A a, b \in Calls :
        (SameWindow(a, b) /\ reqs[a].pc = "done" /\ reqs[b].pc = "done"
            /\ reqs[a].status = 200 /\ reqs[b].status = 200)
        => ~(reqs[a].fetched /\ reqs[b].fetched)

\* C9: the resolver returns a cached entry only if its age is below the TTL,
\* and a call that finds an entry of age at least the TTL fetches upstream.
C9_NoExpiredEntryReturned ==
    \A c \in Calls :
        /\ reqs[c].hit => (reqs[c].hadEntry /\ reqs[c].age < REIV_CACHE_TTL_MS)
        /\ (reqs[c].slug # "" /\ reqs[c].hadEntry
              /\ reqs[c].age >= REIV_CACHE_TTL_MS) => reqs[c].fetched

\* C9, the case: a call found an entry exactly as old as the TTL, fetched
\* upstream and was answered with the page's data.
C9_Witness ==
    \E c \in Calls : /\ reqs[c].hadEntry /\ reqs[c].fetched
                      /\ reqs[c].age = REIV_CACHE_TTL_MS
                      /\ reqs[c].pc = "done" /\ reqs[c].status = 200

\* C10: a fetch that comes back with a non-2xx status makes the resolver
\* return null without raising, leaves the cache as it was, and the endpoint
\* answers 404.
C10_NotOkIsNotFound ==
    [][\A c \in Calls :
          (reqs[c].pc = "fetch" /\ reqs'[c].res = "not ok")
          => /\ reqs'[c].pc = "done"
             /\ reqs'[c].data = NullData
             /\ reqs'[c].status = 404
             /\ reivCache' = reivCache]_vars

\* C10, the case: a call for a slug with a cache entry got a non-2xx
\* response and was answered 404.
C10_Witness ==
    \E c \in Calls :
        /\ reqs[c].res = "not ok" /\ reqs[c].pc = "done" /\ reqs[c].status = 404
        /\ reqs[c].slug \in DOMAIN reivCache

(***************************************************************************)
(* server.js: GET /api/transit-to-southern-cross (lines 486-596) and the   *)
(* geocoding calls of the server and of the batch script side by side      *)
(***************************************************************************)

\* Lines 358-371: the message of the error parseJsonResponse throws, "" if
\* it returns the parsed body.
ParseJsonError(ok, body) ==
    CASE ~ok -> "OpenStreetMap API error (HTTP status)"
      [] body = "html" -> "OpenStreetMap API returned an error page"
      [] body = "garbage" -> "Invalid JSON from external API."
      [] OTHER -> ""

\* parseJsonResponse without its checks: every body is taken as parsed.
ParseJsonResponseUnchecked(ok, body) == body

\* parseJsonResponse (lines 358-371) on the body read after a fetch whose
\* response.ok is ok: "throw" for a non-2xx status, a body starting with "<"
\* or one that is not JSON, the parsed value otherwise.
ParseJsonResponse(ok, body) ==
    IF ~ok \/ body \in {"html", "garbage"} THEN "throw" ELSE body

\* The handler runs next to the batch script ("rate") or alone ("transit").
TransitStage == stage \in {"rate", "transit"}

\* The answer sent for a request: none yet.
NoReply == [kind |-> "none", error |-> "", steps |-> "", durationText |-> "",
            message |-> "", drive |-> <<>>]

\* Lines 592-595: the answer of the catch, status 500 with the message.
ErrorReply(message) == [NoReply EXCEPT !.kind = "error", !.error = message]

\* Lines 505-512: the answer for an address Nominatim does not find.
NotFoundReply ==
    [NoReply EXCEPT !.kind = "not found", !.steps = "[]", !.durationText = Null,
                    !.message = "Address not found. Try suburb name (e.g. South Morang)."]

\* Line 504 never taken.
NoMatchIgnored(geoList) == FALSE

\* Line 504: !geoList || geoList.length === 0.
NoMatch(geoList) == geoList = "empty"

\* getDrivingRouteOSRM, lines 341-355: null when the fetch rejects, when the
\* body is not JSON (an HTML page, with a 2xx status or not), when the code
\* is not "Ok" or when there is no route. Otherwise distance and duration are
\* computed from routes[0] (lines 349-350), and are NaN when the route
\* carries no such numbers.
GetDrivingRouteOSRM(answer) ==
    CASE answer = "route" ->
            [distanceKm |-> "route km", durationMinutes |-> "route min"]
      [] answer = "route without numbers" ->
            [distanceKm |-> "NaN", durationMinutes |-> "NaN"]
      [] OTHER -> [null |-> TRUE]

\* res.json (line 576) writes the answer with JSON.stringify, where NaN
\* becomes null.
Serialise(v) == IF v = "NaN" THEN Null ELSE v

\* Lines 572-575 and 585-590: what the profile says of one destination.
DriveFields(drive) ==
    IF drive # [null |-> TRUE]
    THEN [distanceKm |-> Serialise(drive.distanceKm), source |-> "driving",
          durationMin |-> Serialise(drive.durationMinutes)]
    ELSE [distanceKm |-> "haversine km", source |-> "straight-line",
          durationMin |-> Null]

\* Lines 503-532 with the driving routes asked for as soon as the address is
\* geocoded.
OnGeocodedAllAtOnce(log) ==
    log \o <<"geocode done", "stops issued", "route 1 issued", "route 2 issued">>

\* Lines 503-532: the address is geocoded and the Overpass query is sent.
OnGeocoded(log) == log \o <<"geocode done", "stops issued">>

\* A request arrives (lines 486-499): an empty address is answered 400,
\* otherwise the Nominatim search is fetched at once.
TransitRequest(r, address) ==
    /\ TransitStage
    /\ transit[r].pc = "idle"
    /\ \A q \in 1..(r - 1) : transit[q].pc # "idle"
    /\ transit' = [transit EXCEPT ![r] =
          IF address = ""
          THEN [@ EXCEPT !.pc = "done", !.status = 400]
          ELSE [@ EXCEPT !.pc = "geo fetch", !.address = address,
                         !.t0 = clock, !.geocoded = TRUE,
                         !.log = <<"geocode issued">>]]
    /\ UNCHANGED <<stage, suburbsFile, mergeVars, batchVars, reivVars, wake, geoStarts>>

\* The fetch of line 499 settles: a rejection is caught at line 592 and
\* answered 500; any response, 2xx or not, has its body read (line 502).
TransitGeoFetchReturns(r, res) ==
    /\ TransitStage
    /\ transit[r].pc = "geo fetch"
    /\ transit' = [transit EXCEPT ![r] =
          IF res = "rejected"
          THEN [@ EXCEPT !.pc = "done", !.status = 500,
                         !.reply = ErrorReply("fetch failed")]
          ELSE [@ EXCEPT !.pc = "geo body", !.ok = (res = "ok")]]
    /\ UNCHANGED <<stage, suburbsFile, mergeVars, batchVars, reivVars, wake, geoStarts>>

\* The body of the Nominatim answer is read (lines 502-536): a body that
\* parseJsonResponse refuses is answered 500, an empty list is answered with
\* the "Address not found" message, and a match leads to the Overpass fetch.
TransitGeoBodyReturns(r, body) ==
    /\ TransitStage
    /\ transit[r].pc = "geo body"
    /\ LET geoList == ParseJsonResponse(transit[r].ok, body)
       IN transit' = [transit EXCEPT ![r] =
             IF geoList = "throw"
             THEN [@ EXCEPT !.pc = "done", !.status = 500,
                            !.reply = ErrorReply(ParseJsonError(transit[r].ok, body))]
             ELSE IF NoMatch(geoList)
             THEN [@ EXCEPT !.pc = "done", !.status = 200,
                            !.geoList = geoList,
                            !.log = Append(@, "geocode done"),
                            !.reply = NotFoundReply]
             ELSE [@ EXCEPT !.pc = "stops fetch", !.found = TRUE, !.stops = TRUE,
                            !.geoList = geoList,
                            !.log = OnGeocoded(@)]]
    /\ UNCHANGED <<stage, suburbsFile, mergeVars, batchVars, reivVars, wake, geoStarts>>

\* The Overpass fetch of line 532 settles, as the Nominatim one did.
TransitStopsFetchReturns(r, res) ==
    /\ TransitStage
    /\ transit[r].pc = "stops fetch"
    /\ transit' = [transit EXCEPT ![r] =
          IF res = "rejected"
          THEN [@ EXCEPT !.pc = "done", !.status = 500,
                         !.reply = ErrorReply("fetch failed")]
          ELSE [@ EXCEPT !.pc = "stops body", !.ok = (res = "ok")]]
    /\ UNCHANGED <<stage, suburbsFile, mergeVars, batchVars, reivVars, wake, geoStarts>>

\* The body of the Overpass answer is read (lines 537-571): a body that
\* parseJsonResponse refuses is answered 500; otherwise the stops are
\* computed and the two driving-route lookups are issued, one after the
\* other in the same step, before Promise.all is awaited.
TransitStopsBodyReturns(r, body) ==
    /\ TransitStage
    /\ transit[r].pc = "stops body"
    /\ transit' = [transit EXCEPT ![r] =
          IF ParseJsonResponse(transit[r].ok, body) = "throw"
          THEN [@ EXCEPT !.pc = "done", !.status = 500,
                         !.reply = ErrorReply(ParseJsonError(transit[r].ok, body))]
          ELSE [@ EXCEPT !.pc = "routes", !.routes = 2,
                         !.log = @ \o <<"stops done", "route 1 issued",
                                        "route 2 issued">>]]
    /\ UNCHANGED <<stage, suburbsFile, mergeVars, batchVars, reivVars, wake, geoStarts>>

\* One of the two getDrivingRouteOSRM calls settles (lines 341-355); it does
\* not reject. When both have settled, Promise.all resolves and the profile
\* is answered 200 (lines 572-591).
TransitRouteReturns(r, k, answer) ==
    /\ TransitStage
    /\ transit[r].pc = "routes"
    /\ transit[r].osrm[k] = ""
    /\ LET osrm == [transit[r].osrm EXCEPT ![k] = answer]
           last == \A j \in 1..2 : osrm[j] # ""
       IN transit' = [transit EXCEPT ![r] =
             [@ EXCEPT !.osrm = osrm,
                       !.routes = @ - 1,
                       !.log = Append(@, IF k = 1 THEN "route 1 done" ELSE "route 2 done"),
                       !.pc = IF last THEN "done" ELSE "routes",
                       !.status = IF last THEN 200 ELSE 0,
                       !.reply = IF last
                                 THEN [NoReply EXCEPT
                                          !.kind = "profile",
                                          !.steps = "stops",
                                          !.drive = [j \in 1..2 |->
                                              DriveFields(GetDrivingRouteOSRM(osrm[j]))]]
                                 ELSE NoReply]]
    /\ UNCHANGED <<stage, suburbsFile, mergeVars, batchVars, reivVars, wake, geoStarts>>

\* The addresses requested; the empty one is the request line 488 rejects.
Addresses == {"Kew", ""}

\* Bodies an OpenStreetMap service sends: a list with a match (or, from
\* Overpass, the elements), an empty list, an HTML error page, other text.
OsmBodies == {"match", "empty", "html", "garbage"}

\* Steps of the clock: a moment, and the batch script's delay.
RateTickSteps == {1, DELAY_MS}

\* What Nominatim answers the batch script: a match for the first and the
\* last suburb, no match or a network error for the one between them.
RateUpstream ==
    [n \in GeoNames |->
        IF n = GeoKeys[2] THEN {"empty", "network_error"} ELSE {"match"}]

\* What Nominatim answers the batch script run alone: for every suburb a
\* match, no match, or a network error, from call to call.
PacedUpstream ==
    [n \in GeoNames |-> {"match", "empty", "network_error"}]

\* The batch script is about to run on a dataset whose suburbs all lack
\* coordinates; the server has answered nothing yet.
InitTimed(answers) ==
    /\ ReivUnused
    /\ GateUnused
    /\ stage = "rate"
    /\ suburbsFile = [keys |-> GeoKeys,
                      suburbs |-> [n \in GeoNames |->
                          [medianPrice |-> Null, medianPriceUnit |-> Null,
                           annualChange |-> Null, salesCount |-> Null,
                           priceHistory2025 |-> Absent, coords |-> Null,
                           reivSlug |-> "slug"]],
                      notes |-> <<"orig">>]
    /\ cacheFile = EmptyMap
    /\ upstream = answers
    /\ vpsrFile = EmptyMap /\ mergeRuns = 0 /\ fileBefore = Null
    /\ pc = "idle" /\ variant = "none" /\ limit = NoLimit
    /\ suburbs = Null /\ cache = EmptyMap /\ toProcess = <<>>
    /\ total = 0 /\ i = 0
    /\ run = 0 /\ calls = EmptyMap /\ results = {} /\ saved = {}
    /\ writesAt = <<>> /\ prev = NoPrev
    /\ file0 = suburbsFile

InitRate == InitTimed(RateUpstream)

NextRate ==
    \/ GeocodeStart
    \/ GeocodeReturns
    \/ GeocodeSleepEnds
    \/ \E r \in 1..MaxCalls, address \in Addresses : TransitRequest(r, address)
    \/ \E r \in 1..MaxCalls, res \in FetchOutcomes : TransitGeoFetchReturns(r, res)
    \/ \E r \in 1..MaxCalls, body \in OsmBodies : TransitGeoBodyReturns(r, body)
    \/ \E r \in 1..MaxCalls, res \in FetchOutcomes : TransitStopsFetchReturns(r, res)
    \/ \E r \in 1..MaxCalls, body \in OsmBodies : TransitStopsBodyReturns(r, body)
    \/ \E r \in 1..MaxCalls : TransitRouteReturns(r, 3 - transit[r].routes, "route")
    \/ \E d \in RateTickSteps : Tick(d)

SpecRate == InitRate /\ [][NextRate]_vars

\* The batch script alone, with time passing at any moment.
NextPaced ==
    \/ GeocodeStart
    \/ GeocodeReturns
    \/ GeocodeSleepEnds
    \/ \E d \in RateTickSteps : Tick(d)

InitPaced == InitTimed(PacedUpstream)

SpecPaced == InitPaced /\ [][NextPaced]_vars

(***************************************************************************)
(* Claims about the timing of geocoding calls (SpecRate)                   *)
(***************************************************************************)

\* The geocoding requests issued so far and their start times: those of the
\* batch script's current run and those of the server's transit requests.
GeocodeRequests ==
    {<<"batch", k, geoStarts[k]>> : k \in DOMAIN geoStarts}
    \cup {<<"transit", r, transit[r].t0>> : r \in {q \in 1..MaxCalls : transit[q].geocoded}}

\* C11: any two geocoding requests, whoever issued them, start at least the
\* minimum delay apart.
C11_GlobalRateGate ==
    \A a, b \in GeocodeRequests :
        a # b => (a[3] - b[3] >= DELAY_MS \/ b[3] - a[3] >= DELAY_MS)

\* C12: within one run of geocode-fill consecutive geocode calls start at
\* least DELAY_MS apart, whatever each call returned, and a run of N calls
\* that has ended took at least (N - 1) * DELAY_MS.
C12_BatchCallsSpaced ==
    /\ \A k \in 1..(Len(geoStarts) - 1) : geoStarts[k + 1] - geoStarts[k] >= DELAY_MS
    /\ (pc = "done" /\ total > 0) =>
          /\ Len(geoStarts) = total
          /\ clock - geoStarts[1] >= (total - 1) * DELAY_MS

\* C12, the case: a run of three calls has ended exactly two delays after
\* its first call, only the last of the calls having returned a result.
C12_Witness ==
    /\ stage = "rate" /\ pc = "done" /\ total = 3 /\ run = 1
    /\ Len(geoStarts) = 3
    /\ clock - geoStarts[1] = 2 * DELAY_MS
    /\ results = {GeoKeys[3]}
    /\ ticks > 0

(***************************************************************************)
(* Claims about the order of a batch stage's work (SpecBatch)              *)
(***************************************************************************)

\* The place of name n in the sequence keys (0 when it is not there).
PlaceIn(keys, n) ==
    IF \E k \in DOMAIN keys : keys[k] = n
    THEN CHOOSE k \in DOMAIN keys : keys[k] = n
    ELSE 0

\* The external calls issued in this run and not yet returned.
InFlight == Cardinality({n \in DOMAIN calls : calls[n] > 0}) - Processed

\* C13: a batch stage works through its records one after another in the
\* order of the dataset's keys: the calls issued so far are one each for the
\* first i records selected, at most one of them has not returned, and every
\* value a returned call brought is applied in memory before the next call.
C13_OneRecordAtATime ==
    (stage \in {"geocode", "price"} /\ (Running \/ pc = "done")) =>
        /\ \A k \in DOMAIN toProcess :
              PlaceIn(suburbs.keys, toProcess[k]) >
                 IF k = 1 THEN 0 ELSE PlaceIn(suburbs.keys, toProcess[k - 1])
        /\ \A n \in DOMAIN calls :
              calls[n] = IF \E k \in 1..i : toProcess[k] = n THEN 1 ELSE 0
        /\ InFlight = IF pc = "call" THEN 1 ELSE 0
        /\ results \subseteq {toProcess[k] : k \in 1..Processed}
        /\ \A n \in results :
              IF stage = "geocode" THEN n \in DOMAIN cache
              ELSE suburbs.suburbs[n].medianPrice # Null
                   \/ suburbs.suburbs[n].medianPriceUnit # Null

\* C13, the case: the third geocode call of a run is in flight, the first
\* two have returned, one of them with a result.
C13_Witness ==
    /\ stage = "geocode" /\ pc = "call" /\ i = 3
    /\ Cardinality(results) = 1
    /\ InFlight = 1

\* The records of this run whose external call came back without a value:
\* an exception, a non-2xx status, no data.
Failed == {toProcess[k] : k \in 1..Processed} \ results

\* C14: a record whose external call failed is left as it was, in memory, in
\* the dataset file and in the geocode cache, and the stage goes on: when the
\* run has ended every record selected for it was attempted once and the
\* dataset in memory has been written.
C14_FailureSkipsOneRecord ==
    (stage \in {"geocode", "price"} /\ (Running \/ pc = "done")) =>
        /\ \A n \in Failed :
              /\ run = 1 => /\ suburbs.suburbs[n] = file0.suburbs[n]
                            /\ suburbsFile.suburbs[n] = file0.suburbs[n]
              /\ stage = "geocode" =>
                    /\ n \notin DOMAIN cache /\ n \notin DOMAIN cacheFile
                    /\ LacksCoords(suburbs.suburbs[n])
                    /\ LacksCoords(suburbsFile.suburbs[n])
              /\ stage = "price" =>
                    /\ suburbs.suburbs[n].medianPrice = Null
                    /\ suburbsFile.suburbs[n].medianPrice = Null
        /\ (pc = "done" /\ Failed # {}) =>
              /\ total = IF limit = NoLimit THEN Len(toProcess)
                         ELSE Min(limit, Len(toProcess))
              /\ \A k \in 1..total : calls[toProcess[k]] = 1
              /\ writesAt # <<>> /\ writesAt[Len(writesAt)] = total
              /\ suburbsFile = StringifySuburbs(suburbs)

\* C14, the case: a price-fill run whose first lookup failed has ended with
\* its last record updated.
C14_Witness ==
    /\ stage = "price" /\ pc = "done" /\ run = 1 /\ total > 2
    /\ toProcess[1] \in Failed
    /\ toProcess[total] \in results
    /\ suburbsFile.suburbs[toProcess[total]].medianPrice # Null

(***************************************************************************)
(* scripts/extract-vpsr-suburbs.js and scripts/merge-reiv-suburbs.js:      *)
(* stub creation                                                           *)
(***************************************************************************)

\* A name is handled as the string it is and, where the code looks at its
\* characters, as the sequence of them.
RECURSIVE Concat(_)
Concat(cs) == IF cs = <<>> THEN "" ELSE Head(cs) \o Concat(Tail(cs))

\* String.prototype.toLowerCase on one character (line 121).
ToLowerCase(c) ==
    CASE c = "A" -> "a" [] c = "B" -> "b" [] c = "H" -> "h" [] c = "K" -> "k"
      [] c = "L" -> "l" [] c = "V" -> "v" [] OTHER -> c

\* .replace(/\s+/g, '-') of line 121: every run of white space becomes one
\* hyphen.
RECURSIVE ReplaceSpaceRuns(_, _)
ReplaceSpaceRuns(cs, inRun) ==
    IF cs = <<>> THEN <<>>
    ELSE IF Head(cs) = " "
         THEN (IF inRun THEN <<>> ELSE <<"-">>) \o ReplaceSpaceRuns(Tail(cs), TRUE)
         ELSE <<Head(cs)>> \o ReplaceSpaceRuns(Tail(cs), FALSE)

\* .replace(/[()]/g, '') of line 121.
RemoveParens(cs) == SelectSeq(cs, LAMBDA c : c \notin {"(", ")"})

\* Line 121 without its second replace.
SlugKeepingParens(chars) ==
    Concat(ReplaceSpaceRuns([k \in DOMAIN chars |-> ToLowerCase(chars[k])], FALSE))

\* Line 121: name.toLowerCase().replace(/\s+/g, '-').replace(/[()]/g, '').
SlugOf(chars) ==
    Concat(RemoveParens(
        ReplaceSpaceRuns([k \in DOMAIN chars |-> ToLowerCase(chars[k])], FALSE)))

\* a ?? b ?? null of lines 73-74 and 125-126.
Coalesce(a, b) == IF a # Null THEN a ELSE b

\* Lines 65-77: byName, a Map in insertion order, after the lines up to the
\* k-th; a later line of a name replaces the row only if it has a sales count.
RECURSIVE ByName(_, _)
ByName(lines, k) ==
    IF k = 0 THEN [order |-> <<>>, rows |-> EmptyMap]
    ELSE LET acc == ByName(lines, k - 1)
             parsed == lines[k]
             name == Concat(parsed.chars)
             known == name \in DOMAIN acc.rows
         IN IF known /\ parsed.salesCount = Null THEN acc
            ELSE [order |-> IF known THEN acc.order ELSE Append(acc.order, name),
                  rows |-> (name :>
                     [chars |-> parsed.chars,
                      medianPrice |-> parsed.medianPrice,
                      annualChange |-> Coalesce(parsed.annualChange,
                          IF known THEN acc.rows[name].annualChange ELSE Null),
                      salesCount |-> Coalesce(parsed.salesCount,
                          IF known THEN acc.rows[name].salesCount ELSE Null)])
                     @@ acc.rows]

\* Lines 79-91: the object written to data/vpsr-june-2025.json; a row has no
\* medianPriceUnit, and no annualChange or salesCount that is null.
VpsrOut(byName) ==
    [n \in DOMAIN byName.rows \cup {"_comment"} |->
        IF n = "_comment" THEN [text |-> "VPSR June 2025 quarter"]
        ELSE [medianPrice |-> byName.rows[n].medianPrice,
              medianPriceUnit |-> Null,
              annualChange |-> byName.rows[n].annualChange,
              salesCount |-> byName.rows[n].salesCount]]

\* Lines 102-128: the stub of a locality, with the prices of its row.
ExtractStub(row) ==
    [medianPrice |-> row.medianPrice, medianPriceUnit |-> Null,
     annualChange |-> Coalesce(row.annualChange, Null),
     salesCount |-> Coalesce(row.salesCount, Null),
     priceHistory2025 |-> Absent, coords |-> Null,
     reivSlug |-> SlugOf(row.chars)]

\* Lines 118-130: the loop over byName, up to its k-th entry; a name the
\* dataset has already is skipped.
RECURSIVE AddStubs(_, _, _)
AddStubs(data, byName, k) ==
    IF k = 0 THEN data
    ELSE LET acc == AddStubs(data, byName, k - 1)
             name == byName.order[k]
         IN IF name \in DOMAIN acc.suburbs THEN acc
            ELSE [keys |-> Append(acc.keys, name),
                  suburbs |-> (name :> ExtractStub(byName.rows[name])) @@ acc.suburbs,
                  notes |-> acc.notes]

\* merge-reiv-suburbs.js lines 23-37 and 53: the stub of a REIV suburb.
MinimalStub(slug) ==
    [medianPrice |-> Null, medianPriceUnit |-> Null, annualChange |-> Null,
     salesCount |-> Null, priceHistory2025 |-> Absent, coords |-> Null,
     reivSlug |-> slug]

\* `!existing.reivSlug` of line 46: the slug is null or the empty string.
NoReivSlug(sub) == sub.reivSlug \in {Null, ""}

\* The loop of lines 41-56 filling an empty object instead of the dataset
\* read at line 14.
AddReivSuburbsOnly(data, list, k) ==
    [keys |-> [j \in 1..k |-> list.names[j]],
     suburbs |-> [n \in {list.names[j] : j \in 1..k} |->
                     MinimalStub(list.slugs[CHOOSE j \in 1..k : list.names[j] = n])],
     notes |-> data.notes]

\* merge-reiv-suburbs.js lines 41-56: the loop over reivList.names, up to the
\* k-th name; a suburb the dataset has gets the slug if it has none.
RECURSIVE AddReivSuburbs(_, _, _)
AddReivSuburbs(data, list, k) ==
    IF k = 0 THEN data
    ELSE LET acc == AddReivSuburbs(data, list, k - 1)
             name == list.names[k]
             slug == list.slugs[k]
         IN IF name \in DOMAIN acc.suburbs
            THEN IF NoReivSlug(acc.suburbs[name])
                 THEN [acc EXCEPT !.suburbs[name].reivSlug = slug]
                 ELSE acc
            ELSE [keys |-> Append(acc.keys, name),
                  suburbs |-> (name :> MinimalStub(slug)) @@ acc.suburbs,
                  notes |-> acc.notes]

\* merge-reiv-suburbs.js lines 58-59: the sentence is appended to
\* metadata.notes, whatever the notes hold.
ReivNotes(notes) == Append(notes, "reiv-all")

\* node scripts/extract-vpsr-suburbs.js, lines 65-134: the rows are written
\* to data/vpsr-june-2025.json, and data/suburbs.json is written only if a
\* stub was added.
RunExtract ==
    /\ stage = "stub"
    /\ Len(stubLog) < MaxStubRuns
    /\ LET byName == ByName(report, Len(report))
           data == AddStubs(suburbsFile, byName, Len(byName.order))
           added == Len(data.keys) - Len(suburbsFile.keys)
       IN /\ vpsrFile' = VpsrOut(byName)
          /\ suburbsFile' = IF added > 0 THEN StringifySuburbs(data) ELSE suburbsFile
    /\ fileBefore' = suburbsFile
    /\ stubLog' = Append(stubLog, "extract")
    /\ UNCHANGED <<stage, report, reivList, mergeRuns, handlerVars, batchVars,
                   reivVars, gateVars>>

\* node scripts/merge-reiv-suburbs.js, lines 14-61: data/suburbs.json is
\* always written.
RunMergeReiv ==
    /\ stage = "stub"
    /\ Len(stubLog) < MaxStubRuns
    /\ LET data == AddReivSuburbs(suburbsFile, reivList, Len(reivList.names))
       IN suburbsFile' = StringifySuburbs([data EXCEPT !.notes = ReivNotes(data.notes)])
    /\ fileBefore' = suburbsFile
    /\ stubLog' = Append(stubLog, "reiv")
    /\ UNCHANGED <<stage, report, reivList, vpsrFile, mergeRuns, handlerVars, batchVars,
                   reivVars, gateVars>>

\* Names of report localities, as titleCase returns them, by their
\* characters.
LocalityChars ==
    {<<"K", "e", "w">>,
     <<"B", "o", "x", " ", " ", "H", "i", "l", "l">>,
     <<"A", "s", "c", "o", "t", " ", "(", "V", "i", "c", ")">>}

\* What parseLine returns for a line: one with the change and the number of
\* sales, one with the price only.
ParsedLines ==
    [chars : LocalityChars, medianPrice : {"650000"},
     annualChange : {"-2.7"}, salesCount : {"55"}]
    \cup [chars : LocalityChars, medianPrice : {"640000"},
          annualChange : {Null}, salesCount : {Null}]

Reports == UNION {[1..n -> ParsedLines] : n \in 0..MaxLines}

\* data/reiv-suburb-list.json as the list fetcher writes it: each name is
\* its slug decoded, with the first letter of every word in upper case.
ReivLists ==
    {[names |-> <<>>, slugs |-> <<>>],
     [names |-> <<"Kew", "Lara">>, slugs |-> <<"kew", "lara">>],
     [names |-> <<"Lara", "Ascot (Vic)">>, slugs |-> <<"lara", "ascot%20(vic)">>]}

\* A record of the dataset before the stub-creation scripts run.
KnownSuburb(slug) ==
    [medianPrice |-> "900000", medianPriceUnit |-> "450000",
     annualChange |-> "1.5", salesCount |-> "12", priceHistory2025 |-> "900000",
     coords |-> "-37.80,145.03", reivSlug |-> slug]

\* Datasets the stub-creation scripts start from.
StubDatasets ==
    {[keys |-> <<>>, suburbs |-> EmptyMap, notes |-> <<"orig">>],
     [keys |-> <<"Kew">>, suburbs |-> ("Kew" :> KnownSuburb("kew")),
      notes |-> <<"orig">>],
     [keys |-> <<"Kew">>, suburbs |-> ("Kew" :> KnownSuburb(Null)),
      notes |-> <<"orig">>],
     [keys |-> <<"Lara", "Kew">>,
      suburbs |-> ("Lara" :> KnownSuburb("")) @@ ("Kew" :> KnownSuburb("kew-3101")),
      notes |-> <<"orig">>]}

InitStub ==
    /\ ReivUnused
    /\ BatchUnused
    /\ HandlersUnused
    /\ wake = 0 /\ geoStarts = <<>> /\ transit = [r \in 1..MaxCalls |-> IdleTransit]
    /\ stage = "stub"
    /\ suburbsFile \in StubDatasets
    /\ vpsrFile = [n \in {"_comment"} |-> [text |-> "VPSR June 2025 quarter"]]
    /\ report \in Reports
    /\ reivList \in ReivLists
    /\ stubLog = <<>>
    /\ mergeRuns = 0
    /\ fileBefore = suburbsFile
    /\ file0 = suburbsFile

NextStub == RunExtract \/ RunMergeReiv

SpecStub == InitStub /\ [][NextStub]_vars

\* The last stub-creation script run.
LastStubRun == stubLog[Len(stubLog)]

\* The report's localities, by the names parseLine gives them.
ReportNames == {Concat(report[k].chars) : k \in DOMAIN report}

\* The slug each locality name is to have.
SlugOfName ==
    ("Kew" :> "kew") @@ ("Box  Hill" :> "box-hill") @@ ("Ascot (Vic)" :> "ascot-vic")

\* The number of keys of the dataset that are the name.
KeyCount(data, name) == Cardinality({k \in DOMAIN data.keys : data.keys[k] = name})

\* The fields of a stub that the report does not fill.
BlankButPrices(sub) ==
    /\ sub.coords = Null
    /\ sub.medianPriceUnit = Null
    /\ sub.priceHistory2025 = Absent

\* C15 as stated: after the extract script has run, every report locality
\* that was absent from the dataset has exactly one record, with coords,
\* medianPrice, medianPriceUnit, annualChange and salesCount null, an empty
\* priceHistory, and the slug made of the lower-cased name with its words
\* joined by hyphens and without parentheses.
C15_StubFieldsAllNull ==
    (stubLog # <<>> /\ LastStubRun = "extract") =>
        \A n \in ReportNames \ DOMAIN fileBefore.suburbs :
            /\ KeyCount(suburbsFile, n) = 1
            /\ n \in DOMAIN suburbsFile.suburbs
            /\ BlankButPrices(suburbsFile.suburbs[n])
            /\ suburbsFile.suburbs[n].medianPrice = Null
            /\ suburbsFile.suburbs[n].annualChange = Null
            /\ suburbsFile.suburbs[n].salesCount = Null
            /\ suburbsFile.suburbs[n].reivSlug = SlugOfName[n]

\* C15, amended: after the extract script has run, every report locality
\* that was absent from the dataset has exactly one record; its coords and
\* medianPriceUnit are null and its priceHistory is empty, its medianPrice is
\* the median price of the locality's report row, its annualChange and
\* salesCount are those of the row or null where the row has none, and its
\* slug is the lower-cased name with each run of white space replaced by a
\* hyphen and the parentheses removed.
C15_StubCarriesReportPrices ==
    (stubLog # <<>> /\ LastStubRun = "extract") =>
        \A n \in ReportNames \ DOMAIN fileBefore.suburbs :
            /\ KeyCount(suburbsFile, n) = 1
            /\ n \in DOMAIN suburbsFile.suburbs
            /\ n \in DOMAIN VpsrData(vpsrFile)
            /\ BlankButPrices(suburbsFile.suburbs[n])
            /\ suburbsFile.suburbs[n].medianPrice = vpsrFile[n].medianPrice
            /\ \E k \in DOMAIN report :
                    /\ Concat(report[k].chars) = n
                    /\ suburbsFile.suburbs[n].medianPrice = report[k].medianPrice
            /\ suburbsFile.suburbs[n].annualChange = vpsrFile[n].annualChange
            /\ suburbsFile.suburbs[n].salesCount = vpsrFile[n].salesCount
            /\ suburbsFile.suburbs[n].reivSlug = SlugOfName[n]

\* The extract script has added the stubs of two localities, one of them with
\* parentheses in its name and one without a sales count, next to a suburb
\* the dataset had.
C15_Witness ==
    /\ stubLog = <<"extract">>
    /\ "Kew" \in DOMAIN fileBefore.suburbs
    /\ "Kew" \in ReportNames
    /\ {"Box  Hill", "Ascot (Vic)"} \subseteq ReportNames
    /\ suburbsFile.keys = <<"Kew", "Box  Hill", "Ascot (Vic)">>
    /\ suburbsFile.suburbs["Ascot (Vic)"].reivSlug = "ascot-vic"
    /\ suburbsFile.suburbs["Ascot (Vic)"].salesCount = Null
    /\ suburbsFile.suburbs["Box  Hill"].salesCount = "55"

\* C16: a stub-creation script leaves every record the dataset already had
\* unchanged: for each name present before the run, every field of its record
\* after the run is what it was before.
C16_ExistingRecordsUnchanged ==
    stubLog # <<>> =>
        \A n \in DOMAIN fileBefore.suburbs :
            /\ n \in DOMAIN suburbsFile.suburbs
            /\ suburbsFile.suburbs[n] = fileBefore.suburbs[n]

\* C17: a stub-creation script run a second time in succession, on the same
\* input list, leaves the dataset (suburb records and metadata) as the first
\* run left it.
C17_SecondRunChangesNothing ==
    (Len(stubLog) >= 2 /\ stubLog[Len(stubLog)] = stubLog[Len(stubLog) - 1]) =>
        /\ suburbsFile.keys = fileBefore.keys
        /\ suburbsFile.suburbs = fileBefore.suburbs
        /\ suburbsFile.notes = fileBefore.notes

(***************************************************************************)
(* The pipeline: the scripts run one after the other on the same files     *)
(***************************************************************************)

PipelineStages == {"stub", "merge", "geocode", "price"}

\* Every name a stub-creation script can add to the dataset.
PipelineNames == {"Kew", "Lara", "Box  Hill", "Ascot (Vic)"}

\* What Nominatim answers for each name while geocode-fill runs.
PipelineNominatim ==
    [n \in PipelineNames |->
        CASE n = "Lara" -> {"nan"}
          [] n = "Ascot (Vic)" -> {"match", "network_error"}
          [] OTHER -> {"match"}]

\* What REIV answers for each name while price-fill runs.
PipelineReiv ==
    [n \in PipelineNames |->
        IF n = "Lara" THEN {FullPage} ELSE {FullPage, ReivFailure("http_error")}]

\* The script of one stage has ended or was killed, and a script of another
\* stage is to be run: the process is gone with what it held in memory, the
\* files stay, and the record of the calls starts anew.
ChooseStage(s) ==
    /\ pc \in {"idle", "done", "crashed"}
    /\ stage \in PipelineStages
    /\ s # stage
    /\ stage' = s
    /\ upstream' = CASE s = "geocode" -> PipelineNominatim
                     [] s = "price" -> PipelineReiv
                     [] OTHER -> EmptyMap
    /\ IF s = "price" THEN variant' \in {"html", "puppeteer"} ELSE variant' = "none"
    /\ pc' = "idle"
    /\ suburbs' = Null /\ cache' = EmptyMap /\ toProcess' = <<>>
    /\ total' = 0 /\ i' = 0
    /\ calls' = EmptyMap /\ results' = {} /\ saved' = {} /\ writesAt' = <<>>
    /\ prev' = NoPrev
    /\ UNCHANGED <<suburbsFile, mergeVars, cacheFile, limit, run, file0,
                   reivVars, gateVars>>

\* The report: empty, or a line for a suburb the dataset may have and a line
\* without a sales count for a locality it has not.
PipelineReports ==
    {<<>>,
     <<[chars |-> <<"K", "e", "w">>, medianPrice |-> "650000",
        annualChange |-> "-2.7", salesCount |-> "55"],
       [chars |-> <<"A", "s", "c", "o", "t", " ", "(", "V", "i", "c", ")">>,
        medianPrice |-> "640000", annualChange |-> Null, salesCount |-> Null]>>}

\* The pipeline starts from a dataset in which a suburb has no slug yet, and
\* with a REIV list that is not empty.
InitPipeline ==
    /\ InitStub
    /\ report \in PipelineReports
    /\ reivList.names # <<>>
    /\ \E n \in DOMAIN suburbsFile.suburbs : NoReivSlug(suburbsFile.suburbs[n])

\* The scripts started so far.
ScriptsRun == Len(stubLog) + mergeRuns + run

NextPipeline ==
    /\ \/ \E s \in PipelineStages : ChooseStage(s)
       \/ RunExtract \/ RunMergeReiv
       \/ RunMerge
       \/ GeocodeStart \/ GeocodeReturns \/ GeocodeSleepEnds
       \/ PriceStart \/ PriceReturns \/ PriceSleepEnds \/ PriceBrowserClosed
       \/ Crash
    /\ ScriptsRun' <= MaxScripts

SpecPipeline == InitPipeline /\ [][NextPipeline]_vars

IsPrefix(a, b) == Len(a) <= Len(b) /\ \A k \in DOMAIN a : b[k] = a[k]

\* The keys of a dataset name its records, each once.
KeysUnique(data) ==
    /\ Range(data.keys) = DOMAIN data.suburbs
    /\ \A j, k \in DOMAIN data.keys : data.keys[j] = data.keys[k] => j = k

\* C18: across any sequence of stub creation, merge, geocode-fill and
\* price-fill, every step leaves each key of the persisted dataset where it
\* was (none is deleted or renamed, new ones come after them), and each name
\* is the key of exactly one record.
C18_KeysOnlyGrow ==
    /\ [](KeysUnique(suburbsFile))
    /\ [][/\ IsPrefix(suburbsFile.keys, suburbsFile'.keys)
          /\ DOMAIN suburbsFile.suburbs \subseteq DOMAIN suburbsFile'.suburbs]_vars

\* All four stages have acted on the dataset: both stub-creation scripts
\* added records, the merge ran, geocode-fill set coordinates and price-fill
\* set a price.
C18_Witness ==
    /\ stubLog = <<"extract", "reiv">>
    /\ mergeRuns > 0
    /\ stage = "price" /\ pc = "done"
    /\ suburbsFile.keys = <<"Kew", "Ascot (Vic)", "Lara">>
    /\ file0.keys = <<"Kew">>
    /\ suburbsFile.suburbs["Ascot (Vic)"].coords = GeocodedCoords
    /\ suburbsFile.suburbs["Lara"].medianPrice = "810000"

\* The coordinate pairs of two numbers that occur: those of the dataset's
\* suburbs before the pipeline ran and the one Nominatim gives.
NumberPairs == {"-37.80,145.03", "-37.79,145.01", GeocodedCoords}

ValidCoords(sub) == sub.coords = Null \/ sub.coords \in NumberPairs

\* C19: in every state of the pipeline each suburb's coords, in the
\* persisted dataset and in the dataset a script holds in memory, is null or
\* a pair of two numbers, and every entry of the geocode cache is such a
\* pair: geocode-fill writes no partial or non-numeric pair.
C19_CoordsNullOrPair ==
    /\ \A n \in DOMAIN suburbsFile.suburbs : ValidCoords(suburbsFile.suburbs[n])
    /\ pc \in {"call", "sleep", "closing", "done"} =>
           \A n \in DOMAIN suburbs.suburbs : ValidCoords(suburbs.suburbs[n])
    /\ \A n \in DOMAIN cacheFile : cacheFile[n] \in NumberPairs
    /\ \A n \in DOMAIN cache : cache[n] \in NumberPairs

\* geocode-fill has ended after a call that Nominatim answered without
\* numbers, the suburb staying without coordinates, and a call it answered
\* with a match, now the suburb's coordinates.
C19_Witness ==
    /\ stage = "geocode" /\ pc = "done"
    /\ {"Lara", "Ascot (Vic)"} \subseteq Range(toProcess)
    /\ calls["Lara"] = 1
    /\ suburbsFile.suburbs["Lara"].coords = Null
    /\ "Lara" \notin DOMAIN cacheFile
    /\ suburbsFile.suburbs["Ascot (Vic)"].coords = GeocodedCoords
    /\ cacheFile["Ascot (Vic)"] = GeocodedCoords

\* C20: geocode-fill only appends to the geocode cache on disk: every step
\* leaves each entry as it was; an entry that appears is that of the name
\* whose call has just returned, a name that had no entry, with the
\* coordinates the geocoder gave; and a call is issued only for a name that
\* has no entry.
C20_CacheAppendOnly ==
    [][/\ \A n \in DOMAIN cacheFile :
             n \in DOMAIN cacheFile' /\ cacheFile'[n] = cacheFile[n]
       /\ \A n \in DOMAIN cacheFile' \ DOMAIN cacheFile :
             /\ pc = "call"
             /\ n = toProcess[i]
             /\ "match" \in upstream[n]
             /\ cacheFile'[n] = GeocodedCoords
       /\ (pc' = "call" /\ pc # "call") =>
             toProcess'[i'] \notin DOMAIN cacheFile']_vars

\* The run has ended: a suburb without coordinates that had a cache entry was
\* not looked up and kept its entry, a looked-up suburb got an entry, and one
\* for which the geocoder had no result got none.
C20_Witness ==
    /\ stage = "geocode" /\ pc = "done" /\ run = 1
    /\ \E n \in DOMAIN cacheFile :
          /\ cacheFile[n] = "-37.79,145.01"
          /\ file0.suburbs[n].coords = Null
          /\ calls[n] = 0
    /\ \E n \in DOMAIN cacheFile : cacheFile[n] = GeocodedCoords /\ calls[n] = 1
    /\ \E n \in Range(toProcess) : calls[n] = 1 /\ n \notin DOMAIN cacheFile

(***************************************************************************)
(* server.js: POST /api/listing-from-url and the two listing extractors    *)
(***************************************************************************)

\* What parseInt gives for a string without digits (line 119).
NotANumber == -2

\* A page is the sequence of its pieces that a price pattern can match:
\*   "range"   a dollar amount or a range of them, n its (lower) amount
\*   "commas"  a dollar sign followed by commas only
\*   "json"    "price": n
\*   "short"   $n.tenths m, the decimal-million shorthand
\*   "text"    anything else
Token(kind, n, tenths) == [kind |-> kind, n |-> n, tenths |-> tenths]

\* Lines 115 / 184: what /\$[\d,]+(?:\s*-\s*\$?[\d,]+)?/g matches, in page
\* order; of the shorthand it matches the dollar sign and the first digit.
PriceRangeMatch(html) ==
    SelectSeq(html, LAMBDA t : t.kind \in {"range", "commas", "short"})

\* Lines 118-119 / 187-188: the number of a match, its lower amount.
NumOf(t) == IF t.kind = "commas" THEN NotANumber ELSE t.n

\* Line 120 with both ends of the range allowed.
InPriceRangeInclusive(num) ==
    num # NotANumber /\ num >= 10000 /\ num <= 50000000

\* Lines 120 / 189: !isNaN(num) && num > 10000 && num < 50000000.
InPriceRange(num) ==
    num # NotANumber /\ num > 10000 /\ num < 50000000

\* Lines 116-125 / 185-194: the first match whose number is in the range.
RangePrice(html) ==
    LET m == PriceRangeMatch(html)
        hits == {k \in DOMAIN m : InPriceRange(NumOf(m[k]))}
    IN IF hits = {} THEN NullPrice
       ELSE NumOf(m[CHOOSE k \in hits : \A j \in hits : k <= j])

\* The first token of a kind, if the page has one.
FirstOfKind(html, kind) ==
    LET at == {k \in DOMAIN html : html[k].kind = kind}
    IN IF at = {} THEN <<>> ELSE <<html[CHOOSE k \in at : \A j \in at : k <= j]>>

\* Lines 196-197: the first "price": n of the page, whatever n.
JsonPrice(html) ==
    LET m == FirstOfKind(html, "json")
    IN IF m = <<>> THEN NullPrice ELSE m[1].n

\* Lines 127-128 / 200-201: Math.round(parseFloat(priceM[1]) * 1e6) of the
\* first shorthand of the page.
MillionPrice(html) ==
    LET m == FirstOfKind(html, "short")
    IN IF m = <<>> THEN NullPrice ELSE m[1].n * 1000000 + m[1].tenths * 100000

\* Lines 114-129 of fetchDomainListingByScrape.
DomainPrice(html) ==
    IF RangePrice(html) # NullPrice THEN RangePrice(html) ELSE MillionPrice(html)

\* Lines 183-202 of fetchRealestateListing.
RealestatePrice(html) ==
    IF RangePrice(html) # NullPrice THEN RangePrice(html)
    ELSE IF JsonPrice(html) # NullPrice THEN JsonPrice(html)
    ELSE MillionPrice(html)

ExtractPrice(site, html) ==
    IF site = "domain" THEN DomainPrice(html) ELSE RealestatePrice(html)

\* What new URL(url, 'https://example.com') and lines 255-285 make of the
\* url of the request body.
SiteOf(url) ==
    CASE url = "https://www.domain.com.au/1-a-st-kew-vic-3101-2020" -> "domain"
      [] url = "https://www.realestate.com.au/property-house-vic-kew-150" -> "realestate"
      [] OTHER -> "other"

\* Lines 248-288 up to the first await. A url that is missing or no string
\* is answered 400; new URL throws on "http://", outside any try, so this
\* handler sends no answer (0), or the framework answers 500 for it; a host
\* of neither site is answered 400; otherwise the page is fetched, by
\* fetchDomainListingByScrape with an abort timer set (lines 97-98).
ListingRequest(url) ==
    /\ stage = "listing"
    /\ listing.pc = "idle"
    /\ \/ /\ url \in {"missing", "not a string"}
          /\ listing' = [listing EXCEPT !.pc = "done", !.url = url, !.status = 400]
       \/ /\ url = "http://"
          /\ \E answer \in {0, 500} :
                listing' = [listing EXCEPT !.pc = "done", !.url = url, !.status = answer]
       \/ /\ url \notin {"missing", "not a string", "http://"}
          /\ listing' =
                IF SiteOf(url) = "other"
                THEN [listing EXCEPT !.pc = "done", !.url = url, !.status = 400]
                ELSE [listing EXCEPT !.pc = "fetch", !.url = url, !.site = SiteOf(url),
                                     !.timer = (SiteOf(url) = "domain"),
                                     !.fetches = @ + 1]
    /\ UNCHANGED <<stage, suburbsFile, vpsrFile, mergeRuns, fileBefore, stubVars,
                   nearby, server, batchVars, reivVars, gateVars>>

\* The fetch of line 99 / 170 settles: the timer is cleared (line 104); a
\* rejection or a status that is not 2xx is answered 502, otherwise the body
\* is read.
ListingFetchReturns(res) ==
    /\ stage = "listing"
    /\ listing.pc = "fetch"
    /\ listing' =
          IF res = "ok"
          THEN [listing EXCEPT !.pc = "body", !.timer = FALSE]
          ELSE [listing EXCEPT !.pc = "done", !.timer = FALSE, !.status = 502]
    /\ UNCHANGED <<stage, suburbsFile, vpsrFile, mergeRuns, fileBefore, stubVars,
                   nearby, server, batchVars, reivVars, gateVars>>

\* The timer of line 98 fires while the fetch is pending: the fetch is
\* aborted and rejects, which is answered 502.
ListingTimeout ==
    /\ stage = "listing"
    /\ listing.pc = "fetch"
    /\ listing.timer
    /\ listing' = [listing EXCEPT !.pc = "done", !.timer = FALSE, !.status = 502]
    /\ UNCHANGED <<stage, suburbsFile, vpsrFile, mergeRuns, fileBefore, stubVars,
                   nearby, server, batchVars, reivVars, gateVars>>

\* res.text() of line 106 / 172 resolves: a short page of domain.com.au that
\* speaks of a block or challenge is answered 502 (lines 107-109), any other
\* page has the listing extracted and is answered 200.
ListingBodyReturns(html, challenge) ==
    /\ stage = "listing"
    /\ listing.pc = "body"
    /\ listing' =
          IF listing.site = "domain" /\ challenge
          THEN [listing EXCEPT !.pc = "done", !.status = 502]
          ELSE [listing EXCEPT !.pc = "done", !.status = 200, !.html = html,
                               !.price = ExtractPrice(listing.site, html)]
    /\ UNCHANGED <<stage, suburbsFile, vpsrFile, mergeRuns, fileBefore, stubVars,
                   nearby, server, batchVars, reivVars, gateVars>>

\* The url of the request body.
ListingUrls ==
    {"missing", "not a string", "http://", "/listing/1",
     "https://www.gumtree.com.au/1",
     "https://www.domain.com.au/1-a-st-kew-vic-3101-2020",
     "https://www.realestate.com.au/property-house-vic-kew-150"}

\* The pieces of a page: amounts at, inside and outside the ends of the
\* range, and the examples "$1,100,000 - $1,210,000" and "$1.1m".
Tokens ==
    {Token("range", n, 0) : n \in {500, 10000, 10001, 1100000, 49999999, 50000000}}
    \cup {Token("commas", 0, 0)}
    \cup {Token("json", n, 0) : n \in {5, 1200000, 60000000}}
    \cup {Token("short", 1, 1), Token("short", 0, 0), Token("short", 9, 9)}
    \cup {Token("text", 0, 0)}

Pages == UNION {[1..n -> Tokens] : n \in 0..MaxTokens}

InitListing ==
    /\ ReivUnused
    /\ BatchUnused
    /\ StubUnused
    /\ wake = 0 /\ geoStarts = <<>> /\ transit = [r \in 1..MaxCalls |-> IdleTransit]
    /\ stage = "listing"
    /\ listing = IdleListing
    /\ nearby = IdleNearby
    /\ server = ServerDown("readable")
    /\ suburbsFile = [keys |-> <<>>, suburbs |-> EmptyMap, notes |-> <<>>]
    /\ vpsrFile = EmptyMap /\ mergeRuns = 0 /\ fileBefore = Null
    /\ file0 = suburbsFile

NextListing ==
    \/ \E url \in ListingUrls : ListingRequest(url)
    \/ \E res \in FetchOutcomes : ListingFetchReturns(res)
    \/ ListingTimeout
    \/ \E html \in Pages, challenge \in BOOLEAN : ListingBodyReturns(html, challenge)

SpecListing == InitListing /\ [][NextListing]_vars

(***************************************************************************)
(* Claims about the listing extractors (SpecListing)                       *)
(***************************************************************************)

\* A listing has been extracted and answered.
ListingAnswered == listing.pc = "done" /\ listing.status = 200

\* C21: whatever the page and whichever extractor, the extracted price is
\* null or lies in [10000, 50000000].
C21_PriceNullOrInRange ==
    ListingAnswered =>
        \/ listing.price = NullPrice
        \/ (listing.price >= 10000 /\ listing.price <= 50000000)

\* The positions of the page whose candidate, of the given step of the chain,
\* has the value v.
CandidatesAt(html, step) ==
    {k \in DOMAIN html :
        \/ step = 1 /\ html[k].kind = "range"
        \/ step = 2 /\ html[k].kind = "json"
        \/ step = 3 /\ html[k].kind = "short"}

ValueAt(html, k) ==
    IF html[k].kind = "short" THEN html[k].n * 1000000 + html[k].tenths * 100000
    ELSE html[k].n

\* The first position of the step whose value passes the test, 0 if none.
FirstAt(html, step, Test(_)) ==
    LET at == {k \in CandidatesAt(html, step) : Test(ValueAt(html, k))}
    IN IF at = {} THEN 0 ELSE CHOOSE k \in at : \A j \in at : k <= j

SpecListingFair == SpecListing /\ WF_vars(ListingTimeout)

\* C28: a listing page fetch that the upstream never answers is abandoned
\* within the bound of a timeout, so the lookup that issued it ends.
C28_PendingCallEnds ==
    (listing.pc \in {"fetch", "body"}) ~> (listing.pc = "done")

\* The urls that are malformed: missing, no string, unparsable, or of a host
\* that is neither listing site.
MalformedUrls == {u \in ListingUrls : u \in {"missing", "not a string", "http://"}
                                       \/ SiteOf(u) = "other"}

\* C29: a listing lookup whose url is malformed is answered with a 4xx
\* status, and no external request is issued for it.
C29_MalformedRejectedBeforeAnyCall ==
    (listing.pc # "idle" /\ listing.url \in MalformedUrls) =>
        /\ listing.pc = "done"
        /\ listing.status >= 400 /\ listing.status <= 499
        /\ listing.fetches = 0

(***************************************************************************)
(* server.js: fetchNearbyStopsFromOSM and GET /api/nearby-stops            *)
(***************************************************************************)

\* A node of the Overpass answer: its tags ("" for a tag it has not), its
\* name and its haversine distance from the query point, in metres.
Node(railway, tram, light_rail, public_transport, bus, name, dist) ==
    [railway |-> railway, tram |-> tram, light_rail |-> light_rail,
     public_transport |-> public_transport, bus |-> bus, name |-> name,
     dist |-> dist]

\* Lines 387-389 with the tram test before the railway test.
StopTypeTramFirst(el) ==
    IF \/ el.tram = "yes"
       \/ el.light_rail = "yes"
       \/ (el.public_transport # "" /\ el.bus = "")
    THEN "Tram"
    ELSE IF el.railway \in {"station", "halt"} THEN "Train" ELSE "Bus"

\* Lines 387-389 / 542-544: the type of a node.
StopType(el) ==
    IF el.railway \in {"station", "halt"} THEN "Train"
    ELSE IF \/ el.tram = "yes"
            \/ el.light_rail = "yes"
            \/ (el.public_transport # "" /\ el.bus = "")
         THEN "Tram"
         ELSE "Bus"

\* Math.round(dist * 100) / 100 of lines 391 / 546, in hundredths of a km.
RoundKm(metres) == (metres + 5) \div 10

\* Lines 385-392: the stop made of a node.
StopOf(el) == [name |-> el.name, type |-> StopType(el), distanceKm |-> RoundKm(el.dist)]

\* Line 393 left out: the stops stay in the order of the answer.
Unsorted(stops) == stops

\* Line 393: stops.sort((a, b) => a.distanceKm - b.distanceKm); the sort is
\* stable, stops of equal distanceKm keep their order.
RECURSIVE SortByDistance(_)
SortByDistance(stops) ==
    IF stops = <<>> THEN <<>>
    ELSE LET least == CHOOSE k \in DOMAIN stops :
                          \A j \in DOMAIN stops :
                              \/ stops[k].distanceKm < stops[j].distanceKm
                              \/ (stops[k].distanceKm = stops[j].distanceKm /\ k <= j)
             rest == [j \in 1..(Len(stops) - 1) |->
                         IF j < least THEN stops[j] ELSE stops[j + 1]]
         IN <<stops[least]>> \o SortByDistance(rest)

\* The null of line 394.
NoStop == [null |-> TRUE]

\* Lines 394-397: the first stop of the type in the sorted list, or null.
FirstOfType(sorted, type) ==
    LET at == {k \in DOMAIN sorted : sorted[k].type = type}
    IN IF at = {} THEN NoStop ELSE sorted[CHOOSE k \in at : \A j \in at : k <= j]

\* Lines 384-398: what fetchNearbyStopsFromOSM returns for the elements.
NearestStops(elements) ==
    LET sorted == SortByDistance([k \in DOMAIN elements |-> StopOf(elements[k])])
    IN [train |-> FirstOfType(sorted, "Train"),
        tram |-> FirstOfType(sorted, "Tram"),
        bus |-> FirstOfType(sorted, "Bus")]

\* Lines 401-408 and 377: lat or lon that parseFloat cannot read is answered
\* 400, otherwise the Overpass query is sent.
NearbyRequest(query) ==
    /\ stage = "stops"
    /\ nearby.pc = "idle"
    /\ nearby' = IF query = "lat=abc"
                 THEN [nearby EXCEPT !.pc = "done", !.query = query, !.status = 400]
                 ELSE [nearby EXCEPT !.pc = "fetch", !.query = query, !.fetches = @ + 1]
    /\ UNCHANGED <<stage, suburbsFile, vpsrFile, mergeRuns, fileBefore, stubVars,
                   listing, server, batchVars, reivVars, gateVars>>

\* The fetch of line 377 settles: a rejection is caught at line 410 and
\* answered 500, any response has its body read (line 382).
NearbyFetchReturns(res) ==
    /\ stage = "stops"
    /\ nearby.pc = "fetch"
    /\ nearby' = IF res = "rejected"
                 THEN [nearby EXCEPT !.pc = "done", !.status = 500,
                                     !.error = "fetch failed"]
                 ELSE [nearby EXCEPT !.pc = "body", !.ok = (res = "ok")]
    /\ UNCHANGED <<stage, suburbsFile, vpsrFile, mergeRuns, fileBefore, stubVars,
                   listing, server, batchVars, reivVars, gateVars>>

\* The body is read (lines 382-398 and 409-412): what parseJsonResponse
\* refuses is answered 500 with its message, otherwise the nearest stops are
\* answered.
NearbyBodyReturns(body, elements) ==
    /\ stage = "stops"
    /\ nearby.pc = "body"
    /\ body = "match" \/ elements = <<>>
    /\ nearby' =
          IF ParseJsonError(nearby.ok, body) # ""
          THEN [nearby EXCEPT !.pc = "done", !.status = 500,
                              !.error = ParseJsonError(nearby.ok, body)]
          ELSE [nearby EXCEPT !.pc = "done", !.status = 200, !.elements = elements,
                              !.result = NearestStops(elements)]
    /\ UNCHANGED <<stage, suburbsFile, vpsrFile, mergeRuns, fileBefore, stubVars,
                   listing, server, batchVars, reivVars, gateVars>>

\* Distances from the query point, in metres: three that round to 0.2 km and
\* the 0.5 km and 0.2 km of a station and a bus stop.
Distances == {196, 201, 204, 500}

\* Nodes of every combination of tags, and nodes of the three types at every
\* distance.
TaggedNodes ==
    {Node(r, t, l, p, b, "A", 500) :
        r \in {"", "station", "halt", "tram_stop"}, t \in {"", "yes", "no"},
        l \in {"", "yes"}, p \in {"", "stop_position"}, b \in {"", "yes"}}

PlainNodes ==
    {Node("station", "", "", "", "", n, d) : n \in {"A", "B"}, d \in Distances}
    \cup {Node("", "yes", "", "stop_position", "", n, d) : n \in {"A", "B"}, d \in Distances}
    \cup {Node("", "", "", "", "yes", n, d) : n \in {"A", "B"}, d \in Distances}

ElementLists ==
    {<<el>> : el \in TaggedNodes} \cup UNION {[1..n -> PlainNodes] : n \in 0..MaxNodes}

InitStops ==
    /\ ReivUnused
    /\ BatchUnused
    /\ StubUnused
    /\ wake = 0 /\ geoStarts = <<>> /\ transit = [r \in 1..MaxCalls |-> IdleTransit]
    /\ stage = "stops"
    /\ listing = IdleListing
    /\ nearby = IdleNearby
    /\ server = ServerDown("readable")
    /\ suburbsFile = [keys |-> <<>>, suburbs |-> EmptyMap, notes |-> <<>>]
    /\ vpsrFile = EmptyMap /\ mergeRuns = 0 /\ fileBefore = Null
    /\ file0 = suburbsFile

NextStops ==
    \/ \E query \in {"lat=abc", "lat=-37.8&lon=145.0"} : NearbyRequest(query)
    \/ \E res \in FetchOutcomes : NearbyFetchReturns(res)
    \/ /\ nearby.pc = "body"
       /\ \E body \in OsmBodies, elements \in ElementLists :
             NearbyBodyReturns(body, elements)

SpecStops == InitStops /\ [][NextStops]_vars

(***************************************************************************)
(* Claims about the nearest stops (SpecStops)                              *)
(***************************************************************************)

NearbyAnswered == nearby.pc = "done" /\ nearby.status = 200

\* The positions of the answer's nodes that the tags put into the category.
OfCategory(elements, type) ==
    {k \in DOMAIN elements :
        LET el == elements[k]
            train == el.railway = "station" \/ el.railway = "halt"
            tram == \/ el.tram = "yes"
                    \/ el.light_rail = "yes"
                    \/ (el.public_transport # "" /\ el.bus = "")
        IN CASE type = "Train" -> train
             [] type = "Tram" -> ~train /\ tram
             [] OTHER -> ~train /\ ~tram}

ResultOf(type) ==
    CASE type = "Train" -> nearby.result.train
      [] type = "Tram" -> nearby.result.tram
      [] OTHER -> nearby.result.bus

C24_TagPrecedence ==
    NearbyAnswered =>
        /\ \A k \in DOMAIN nearby.elements :
              Cardinality({type \in {"Train", "Tram", "Bus"} :
                              k \in OfCategory(nearby.elements, type)}) = 1
        /\ Len(nearby.elements) = 1 =>
              \A type \in {"Train", "Tram", "Bus"} :
                  IF 1 \in OfCategory(nearby.elements, type)
                  THEN ResultOf(type) # NoStop /\ ResultOf(type).type = type
                  ELSE ResultOf(type) = NoStop

\* A railway station that also has the tram, light_rail and public_transport
\* tags is answered as the Train stop, and as no other.
C24_Witness ==
    /\ NearbyAnswered
    /\ nearby.elements = <<Node("station", "yes", "yes", "stop_position", "", "A", 500)>>
    /\ nearby.result.train # NoStop
    /\ nearby.result.tram = NoStop
    /\ nearby.result.bus = NoStop

(***************************************************************************)
(* The transit profile alone: requests answered side by side (SpecTransit) *)
(***************************************************************************)

\* What router.project-osrm.org may answer one lookup: a route; code "Ok"
\* with a route that carries no distance or duration; an HTML page with a
\* 2xx status; a non-2xx status, whose body is an error code such as
\* "NoRoute" or is not JSON; no answer at all.
OsrmAnswers ==
    {"route", "route without numbers", "html", "http error", "rejected"}

InitTransit ==
    /\ ReivUnused
    /\ BatchUnused
    /\ StubUnused
    /\ HandlersUnused
    /\ wake = 0 /\ geoStarts = <<>> /\ transit = [r \in 1..MaxCalls |-> IdleTransit]
    /\ stage = "transit"
    /\ suburbsFile = [keys |-> <<>>, suburbs |-> EmptyMap, notes |-> <<>>]
    /\ vpsrFile = EmptyMap /\ mergeRuns = 0 /\ fileBefore = Null
    /\ file0 = suburbsFile

NextTransit ==
    \/ \E r \in 1..MaxCalls, address \in Addresses : TransitRequest(r, address)
    \/ \E r \in 1..MaxCalls, res \in FetchOutcomes : TransitGeoFetchReturns(r, res)
    \/ \E r \in 1..MaxCalls, body \in OsmBodies : TransitGeoBodyReturns(r, body)
    \/ \E r \in 1..MaxCalls, res \in FetchOutcomes : TransitStopsFetchReturns(r, res)
    \/ \E r \in 1..MaxCalls, body \in OsmBodies : TransitStopsBodyReturns(r, body)
    \/ \E r \in 1..MaxCalls, k \in 1..2, answer \in OsrmAnswers :
          TransitRouteReturns(r, k, answer)

SpecTransit == InitTransit /\ [][NextTransit]_vars

(***************************************************************************)
(* Claims about the transit profile (SpecTransit)                          *)
(***************************************************************************)

\* The events of a request's log that are in a set.
LogHas(r, events) == \E p \in DOMAIN transit[r].log : transit[r].log[p] \in events

RouteIssued == {"route 1 issued", "route 2 issued"}

\* C25: for each of the two destinations on its own, a driving-route call
\* that fails or answers something malformed leaves the haversine distance,
\* the tag "straight-line" and a null duration; one that succeeds leaves the
\* route's distance, the tag "driving" and a duration that is not null; and
\* a request whose route lookups were issued is never answered with an error.
C25_DriveFallbackPerDestination ==
    \A r \in 1..MaxCalls :
        /\ (transit[r].pc = "done" /\ LogHas(r, RouteIssued)) => transit[r].status = 200
        /\ transit[r].reply.kind = "profile" =>
              \A k \in 1..2 :
                  LET d == transit[r].reply.drive[k]
                  IN IF transit[r].osrm[k] = "route"
                     THEN /\ d.distanceKm = "route km"
                          /\ d.source = "driving"
                          /\ d.durationMin # Null
                     ELSE /\ d.distanceKm = "haversine km"
                          /\ d.source = "straight-line"
                          /\ d.durationMin = Null

Issued == {"stops issued"} \cup RouteIssued

Completed == {"stops done", "route 1 done", "route 2 done"}

\* In the log of request r, an event of the set comes before position p.
Earlier(r, p, events) == \E q \in 1..(p - 1) : transit[r].log[q] \in events

\* No NearestStops or DrivingRoute call is issued before Geocode completed.
NothingBeforeGeocode ==
    \A r \in 1..MaxCalls : \A p \in DOMAIN transit[r].log :
        transit[r].log[p] \in Issued => Earlier(r, p, {"geocode done"})

\* C26 as stated: nothing is issued before Geocode has completed, and of
\* NearestStops and the two DrivingRoute lookups none is issued after
\* another of them has completed.
C26_ThreeLookupsIssuedTogether ==
    /\ NothingBeforeGeocode
    /\ \A r \in 1..MaxCalls : \A p \in DOMAIN transit[r].log :
          transit[r].log[p] \in Issued => ~Earlier(r, p, Completed)

\* C26, amended: nothing is issued before Geocode has completed; the
\* NearestStops call is issued in the step that completes Geocode; the two
\* DrivingRoute lookups are issued only after NearestStops has completed,
\* both in one step, neither after the other has completed.
C26_RoutesIssuedAfterStops ==
    /\ NothingBeforeGeocode
    /\ \A r \in 1..MaxCalls : \A p \in DOMAIN transit[r].log :
          LET log == transit[r].log
          IN /\ log[p] = "stops issued" => log[p - 1] = "geocode done"
             /\ log[p] = "route 1 issued" =>
                   /\ log[p - 1] = "stops done"
                   /\ p + 1 \in DOMAIN log
                   /\ log[p + 1] = "route 2 issued"
             /\ log[p] = "route 2 issued" => log[p - 1] = "route 1 issued"
             /\ log[p] \in RouteIssued =>
                   ~Earlier(r, p, {"route 1 done", "route 2 done"})

\* A request whose two route lookups were issued and have both completed,
\* the second before the first.
C26_Witness ==
    \E r \in 1..MaxCalls :
        /\ transit[r].reply.kind = "profile"
        /\ \E p \in DOMAIN transit[r].log :
              /\ transit[r].log[p] = "route 1 done"
              /\ Earlier(r, p, {"route 2 done"})

\* C27: a geocode query with zero matches is answered with a not-found
\* result and not with an error: the transit profile answers 200 with an
\* empty step list, a null duration and the not-found message, and issues no
\* NearestStops or DrivingRoute call; the batch geocoder returns null and
\* does not throw.
C27_ZeroMatchesNotFound ==
    /\ \A r \in 1..MaxCalls :
          transit[r].geoList = "empty" =>
              /\ transit[r].pc = "done"
              /\ transit[r].status = 200
              /\ transit[r].reply.kind = "not found"
              /\ transit[r].reply.steps = "[]"
              /\ transit[r].reply.durationText = Null
              /\ transit[r].reply.message =
                    "Address not found. Try suburb name (e.g. South Morang)."
              /\ ~LogHas(r, Issued)
    /\ Geocode("empty") = Null

\* Nominatim has answered a request with an empty list.
C27_Witness ==
    \E r \in 1..MaxCalls :
        transit[r].geoList = "empty" /\ transit[r].log = <<"geocode issued", "geocode done">>

\* What an upstream did: answered 2xx with a body that is not structured
\* data (degraded), or answered non-2xx or not at all (unavailable).
Degraded == {"html"}

Unavailable == {"http error", "rejected"}

\* C30: a 2xx answer whose body is not valid structured data leaves an
\* outcome the caller can tell from that of a non-2xx answer or a network
\* failure: two profiles, one whose driving-route lookup met the first and
\* one whose lookup met the second, do not report the same for that
\* destination.
C30_DegradedDiffersFromUnavailable ==
    \A r1, r2 \in 1..MaxCalls : \A k \in 1..2 :
        ( /\ transit[r1].reply.kind = "profile"
          /\ transit[r2].reply.kind = "profile"
          /\ transit[r1].osrm[k] \in Degraded
          /\ transit[r2].osrm[k] \in Unavailable )
        => transit[r1].reply.drive[k] # transit[r2].reply.drive[k]

\* The NearestStops query of request r failed: it was issued, the request is
\* over, and the stops were never computed.
StopsFailed(r) ==
    /\ transit[r].pc = "done"
    /\ LogHas(r, {"stops issued"})
    /\ ~LogHas(r, {"stops done"})

\* C40: a failure of the NearestStops query (a non-2xx answer, or a 2xx body
\* that is not JSON) fails the whole profile with an error answer; no
\* DrivingRoute lookup is issued then and the answer carries no geocode or
\* commute data. Driving routes are only ever issued after a 2xx answer.
C40_StopsFailureFailsProfile ==
    \A r \in 1..MaxCalls :
        /\ LogHas(r, RouteIssued) => (transit[r].ok /\ LogHas(r, {"stops done"}))
        /\ (transit[r].pc = "stops body" /\ ~transit[r].ok) => ~LogHas(r, RouteIssued)
        /\ StopsFailed(r) =>
              /\ transit[r].status = 500
              /\ transit[r].reply = ErrorReply(transit[r].reply.error)
              /\ transit[r].reply.error \in
                    {"OpenStreetMap API error (HTTP status)",
                     "OpenStreetMap API returned an error page",
                     "Invalid JSON from external API.",
                     "fetch failed"}
              /\ ~LogHas(r, RouteIssued)

\* Overpass has answered one request with a non-2xx status and another with
\* a 2xx HTML page.
C40_Witness ==
    \E r1, r2 \in 1..MaxCalls :
        /\ StopsFailed(r1) /\ StopsFailed(r2)
        /\ transit[r1].reply.error = "OpenStreetMap API error (HTTP status)"
        /\ transit[r2].reply.error = "OpenStreetMap API returned an error page"

(***************************************************************************)
(* More claims about the resolver (SpecReiv)                               *)
(***************************************************************************)

\* C39: the resolver stores a result in the TTL cache only when a median
\* price was parsed, so a call that follows a 2xx page without a price,
\* for the same slug, fetches again.
C39_OnlyParsedResultsCached ==
    /\ \A slug \in DOMAIN reivCache : reivCache[slug].data.medianPrice # Null
    /\ \A a, b \in 1..MaxCalls :
          ( /\ reqs[a].pc = "done" /\ reqs[a].res = "ok"
            /\ reqs[a].data.medianPrice = Null
            /\ reqs[b].slug = reqs[a].slug
            /\ reqs[b].pc # "idle"
            /\ a < b
            /\ reqs[b].hadEntry )
          => reqs[b].fetched

(***************************************************************************)
(* More claims about geocode-fill (SpecGeocode)                            *)
(***************************************************************************)

\* C38: geocode-fill never overwrites valid coordinates, even when the cache
\* file holds another entry for the name; and when a run has completed, a
\* suburb that lacked coordinates and whose name is in the cache has the
\* cache's entry as its coordinates, also after a run that issued no call.
C38_ValidCoordsKept ==
    /\ \A n \in DOMAIN file0.suburbs :
          ~LacksCoords(file0.suburbs[n]) =>
              suburbsFile.suburbs[n].coords = file0.suburbs[n].coords
    /\ pc = "done" =>
          \A n \in DOMAIN cacheFile :
              LacksCoords(file0.suburbs[n]) =>
                  suburbsFile.suburbs[n].coords = cacheFile[n]

\* A run that issued no call has completed on a dataset where one cached
\* suburb had coordinates other than the cache's and another had none.
C38_Witness ==
    /\ pc = "done"
    /\ writesAt = <<0>>
    /\ \E n, m \in DOMAIN cacheFile :
          /\ ~LacksCoords(file0.suburbs[n])
          /\ file0.suburbs[n].coords # cacheFile[n]
          /\ LacksCoords(file0.suburbs[m])
          /\ suburbsFile.suburbs[m].coords = cacheFile[m]

(***************************************************************************)
(* More claims about price-fill (SpecPrice)                                *)
(***************************************************************************)

\* The suburb had a median price, or no slug, in the dataset price-fill was
\* first run on.
ResolvedOrNoSlug(n) ==
    \/ file0.suburbs[n].medianPrice # Null
    \/ file0.suburbs[n].reivSlug \in {Null, ""}

SuburbFields ==
    {"medianPrice", "medianPriceUnit", "annualChange", "salesCount",
     "priceHistory2025", "coords", "reivSlug"}

\* C37: a suburb whose medianPrice is not null when price-fill starts, or
\* that has no slug, receives no external call and keeps every field, in
\* memory and in the file; and no field of any suburb that was not null
\* becomes null.
C37_ResolvedSuburbsUntouched ==
    /\ \A n \in DOMAIN file0.suburbs :
          ResolvedOrNoSlug(n) =>
              /\ n \in DOMAIN calls => calls[n] = 0
              /\ suburbsFile.suburbs[n] = file0.suburbs[n]
              /\ pc \in {"call", "sleep", "closing", "done"} =>
                    suburbs.suburbs[n] = file0.suburbs[n]
    /\ \A n \in DOMAIN file0.suburbs : \A f \in SuburbFields :
          file0.suburbs[n][f] # Null =>
              /\ suburbsFile.suburbs[n][f] # Null
              /\ pc \in {"call", "sleep", "closing", "done"} =>
                    suburbs.suburbs[n][f] # Null

\* A run has completed on a dataset in which a suburb with a slug was priced
\* already and a suburb without a slug had no price, and has priced another.
C37_Witness ==
    /\ pc = "done"
    /\ \E n, m, u \in DOMAIN file0.suburbs :
          /\ file0.suburbs[n].medianPrice # Null
          /\ file0.suburbs[n].reivSlug = "slug"
          /\ file0.suburbs[m].medianPrice = Null
          /\ file0.suburbs[m].reivSlug = Null
          /\ calls[u] > 0
          /\ suburbsFile.suburbs[u].medianPrice # file0.suburbs[u].medianPrice

(***************************************************************************)
(* geocode-fill run again and again with a fixed --limit (SpecLimited)     *)
(***************************************************************************)

\* The script is invoked once more after a run has completed. The count of
\* runs and the clock are the model's own and start over; the files, the
\* limit and the upstream stay.
RunAgain ==
    /\ stage = "geocode"
    /\ pc = "done"
    /\ run = MaxRuns
    /\ run' = 0
    /\ clock' = 0
    /\ wake' = 0
    /\ UNCHANGED <<stage, suburbsFile, mergeVars, cacheFile, procVars, upstream,
                   calls, results, saved, writesAt, prev, file0,
                   reivCache, ticks, reqs, geoStarts, transit>>

\* For each name Nominatim always has a match, never has one, or has one
\* from time to time.
LimitedUpstreams == {{"match"}, {"empty"}, {"match", "empty"}}

\* No suburb has coordinates, the cache is empty and a limit is given.
InitLimited ==
    /\ GateUnused
    /\ ReivUnused
    /\ stage = "geocode"
    /\ suburbsFile = [keys |-> GeoKeys,
                      suburbs |-> [n \in GeoNames |->
                          [medianPrice |-> Null, medianPriceUnit |-> Null,
                           annualChange |-> Null, salesCount |-> Null,
                           priceHistory2025 |-> Absent, coords |-> Null,
                           reivSlug |-> "slug"]],
                      notes |-> <<"orig">>]
    /\ cacheFile = EmptyMap
    /\ upstream \in [GeoNames -> LimitedUpstreams]
    /\ vpsrFile = EmptyMap /\ mergeRuns = 0 /\ fileBefore = Null
    /\ pc = "idle" /\ variant = "none" /\ limit \in 1..MaxLimit
    /\ suburbs = Null /\ cache = EmptyMap /\ toProcess = <<>>
    /\ total = 0 /\ i = 0
    /\ run = 0 /\ calls = EmptyMap /\ results = {} /\ saved = {}
    /\ writesAt = <<>> /\ prev = NoPrev
    /\ file0 = suburbsFile

NextLimited == GeocodeStart \/ GeocodeReturns \/ GeocodeSleepEnds \/ RunAgain

\* Every call returns, every sleep ends and the script is run again and
\* again.
SpecLimited == InitLimited /\ [][NextLimited]_vars /\ WF_vars(NextLimited)

\* C36: with a fixed --limit, repeated runs go through the whole unresolved
\* set: every suburb lacking coordinates is attempted in some run, and every
\* suburb for which Nominatim has a match is resolved in the end, even when
\* other suburbs never resolve.
C36_LimitedRunsReachEverySuburb ==
    \A n \in GeoNames :
        /\ <>(n \in DOMAIN calls /\ calls[n] > 0)
        /\ (upstream[n] = {"match"}) ~> (suburbsFile.suburbs[n].coords # Null)

(***************************************************************************)
(* More claims about the pipeline (SpecPipeline)                           *)
(***************************************************************************)

\* C35: once merge and then price-fill have run, running merge again with
\* the same report leaves the dataset as it was, so that price-fill has
\* nothing to look up: a merge that follows an earlier merge keeps the
\* median price that price-fill resolved for a suburb absent from the
\* report.
C35_ResolvedPriceSurvivesMerge ==
    [][(mergeRuns >= 1 /\ mergeRuns' = mergeRuns + 1) =>
          \A n \in DOMAIN suburbsFile.suburbs :
              ( /\ NoRow(VpsrData(vpsrFile), n)
                /\ suburbsFile.suburbs[n].medianPrice # Null )
              => suburbsFile'.suburbs[n].medianPrice =
                    suburbsFile.suburbs[n].medianPrice]_vars

(***************************************************************************)
(* scripts/extract-vpsr-suburbs.js on a report whose localities recur       *)
(* (SpecExtract)                                                           *)
(***************************************************************************)

\* What parseLine returns for the lines of a locality that recurs, each part
\* after the price being there or not, and for a line of another locality.
RecurringLines ==
    [chars : {<<"K", "e", "w">>}, medianPrice : {"650000", "640000"},
     annualChange : {Null, "-2.7"}, salesCount : {Null, "55"}]
    \cup [chars : {<<"L", "a", "r", "a">>}, medianPrice : {"700000"},
          annualChange : {"3.1"}, salesCount : {"7"}]

RecurringReports == UNION {[1..n -> RecurringLines] : n \in 1..MaxLines}

InitExtract ==
    /\ ReivUnused
    /\ BatchUnused
    /\ HandlersUnused
    /\ wake = 0 /\ geoStarts = <<>> /\ transit = [r \in 1..MaxCalls |-> IdleTransit]
    /\ stage = "stub"
    /\ suburbsFile = [keys |-> <<"Kew">>, suburbs |-> ("Kew" :> KnownSuburb("kew")),
                      notes |-> <<"orig">>]
    /\ vpsrFile = [n \in {"_comment"} |-> [text |-> "VPSR June 2025 quarter"]]
    /\ report \in RecurringReports
    /\ reivList = [names |-> <<>>, slugs |-> <<>>]
    /\ stubLog = <<>>
    /\ mergeRuns = 0
    /\ fileBefore = suburbsFile
    /\ file0 = suburbsFile

NextExtract == RunExtract

SpecExtract == InitExtract /\ [][NextExtract]_vars

\* The lines of the report that parseLine gives the name, and those of them
\* that carry a sales count.
LinesOf(name) == {k \in DOMAIN report : Concat(report[k].chars) = name}

SalesLinesOf(name) == {k \in LinesOf(name) : report[k].salesCount # Null}

Least(S) == CHOOSE k \in S : \A j \in S : k <= j

Greatest(S) == CHOOSE k \in S : \A j \in S : k >= j

\* The stored row has the three fields of line k.
RowIsLine(name, k) ==
    /\ vpsrFile[name].medianPrice = report[k].medianPrice
    /\ vpsrFile[name].annualChange = report[k].annualChange
    /\ vpsrFile[name].salesCount = report[k].salesCount

\* C33 as stated: when a locality recurs, its extracted row comes from a line
\* carrying a sales count whenever there is one, in whatever order the lines
\* appear, and medianPrice, annualChange and salesCount all come from that
\* same line.
C33_RowFromOneSalesLine ==
    stubLog # <<>> =>
        \A name \in ReportNames :
            SalesLinesOf(name) # {} =>
                \E k \in SalesLinesOf(name) : RowIsLine(name, k)

\* What lines 65-77 store instead: the row's medianPrice and salesCount are
\* those of the last line of the locality that carries a sales count, or of
\* its first line when none does; its annualChange is that of the same line
\* if the line has one, and otherwise that of the latest earlier line with
\* an annual change among the locality's first line and its lines with a
\* sales count.
RowMixesLines ==
    stubLog # <<>> =>
        \A name \in ReportNames :
            LET taken == {Least(LinesOf(name))} \cup SalesLinesOf(name)
                k == Greatest(taken)
                withChange == {j \in taken : report[j].annualChange # Null}
            IN /\ vpsrFile[name].medianPrice = report[k].medianPrice
               /\ vpsrFile[name].salesCount = report[k].salesCount
               /\ vpsrFile[name].annualChange =
                     IF withChange = {} THEN Null
                     ELSE report[Greatest(withChange)].annualChange

(***************************************************************************)
(* server.js: start-up and the dataset endpoints (lines 11-59, 598-605)    *)
(* (SpecServer)                                                            *)
(***************************************************************************)

\* What start-up finds at data/suburbs.json: the dataset; no file; text that
\* is not JSON; the JSON value null; a JSON object without the keys suburbs
\* and metadata.
DatasetFiles == {"readable", "missing", "not json", "json null", "json object"}

\* loadSuburbData, lines 13-26: suburbData after the call. readFileSync or
\* JSON.parse throwing leaves it null; a parsed value is assigned at line 17
\* before lines 18-20 read its keys, so an object without them stays in
\* suburbData although the catch of line 22 is reached.
LoadSuburbData(file) ==
    CASE file = "readable" -> "dataset"
      [] file = "json object" -> "object"
      [] OTHER -> Null

\* The requests sent to the server: both dataset endpoints, and one that
\* needs no dataset.
ServerRequests ==
    {"/api/suburbs", "/api/suburbs/Kew", "/api/suburbs/Nowhere",
     "/api/nearby-stops?lat=abc"}

\* Lines 36-59 and 401-406: the status and the body of the answer.
ServerAnswer(request, suburbData) ==
    CASE request = "/api/nearby-stops?lat=abc" -> [status |-> 400, body |-> "error"]
      [] suburbData = Null -> [status |-> 500, body |-> "error"]
      [] request = "/api/suburbs" -> [status |-> 200, body |-> suburbData]
      [] suburbData = "object" ->
            \* suburbData.suburbs is undefined: line 49 throws
            [status |-> 500, body |-> "error"]
      [] request = "/api/suburbs/Kew" -> [status |-> 200, body |-> "suburb"]
      [] OTHER -> [status |-> 404, body |-> "error"]

\* node server.js, lines 598-605: app.listen binds the port and its callback
\* calls loadSuburbData(), whose return value is not used.
ServerStart ==
    /\ stage = "server"
    /\ server.pc = "down"
    /\ server' = [server EXCEPT !.pc = "serving",
                                !.suburbData = LoadSuburbData(server.file)]
    /\ UNCHANGED <<stage, suburbsFile, vpsrFile, mergeRuns, fileBefore, stubVars,
                   listing, nearby, batchVars, reivVars, gateVars>>

\* A request is answered.
ServerRequest(request) ==
    /\ stage = "server"
    /\ server.pc = "serving"
    /\ Len(server.answers) < MaxCalls
    /\ server' = [server EXCEPT !.answers =
                      Append(@, [request |-> request] @@
                                ServerAnswer(request, server.suburbData))]
    /\ UNCHANGED <<stage, suburbsFile, vpsrFile, mergeRuns, fileBefore, stubVars,
                   listing, nearby, batchVars, reivVars, gateVars>>

InitServer ==
    /\ ReivUnused
    /\ BatchUnused
    /\ StubUnused
    /\ wake = 0 /\ geoStarts = <<>> /\ transit = [r \in 1..MaxCalls |-> IdleTransit]
    /\ stage = "server"
    /\ listing = IdleListing
    /\ nearby = IdleNearby
    /\ \E file \in DatasetFiles : server = ServerDown(file)
    /\ suburbsFile = [keys |-> <<>>, suburbs |-> EmptyMap, notes |-> <<>>]
    /\ vpsrFile = EmptyMap /\ mergeRuns = 0 /\ fileBefore = Null
    /\ file0 = suburbsFile

NextServer ==
    \/ ServerStart
    \/ \E request \in ServerRequests : ServerRequest(request)

SpecServer == InitServer /\ [][NextServer]_vars

\* C34: an unreadable or unparsable dataset file is fatal at start-up: when
\* loading the dataset fails the process does not go on to serve, and no
\* request is ever answered without a loaded dataset.
C34_LoadFailureIsFatal ==
    server.file # "readable" =>
        /\ server.pc # "serving"
        /\ server.answers = <<>>

(***************************************************************************)
(* server.js: the suburb and the property type of a listing (lines 83-93,  *)
(* 111, 140-142, 213-219) (SpecFields)                                     *)
(***************************************************************************)

\* /^(nsw|vic|qld|sa|wa|tas|nt|act)$/i of line 88.
StateCodes == {"nsw", "vic", "qld", "sa", "wa", "tas", "nt", "act"}

\* /^\d+$/ of line 90, among the tokens of the slugs below.
DigitsOnly(part) == part \in {"12", "3752", "2020549940"}

\* replace(/\b\w/g, c => c.toUpperCase()) of line 92 on one token.
Capitalise(part) ==
    CASE part = "south" -> "South"
      [] part = "morang" -> "Morang"
      [] part = "smith" -> "Smith"
      [] part = "street" -> "Street"
      [] part = "wa" -> "Wa"
      [] part = "vic" -> "Vic"
      [] OTHER -> part

\* join(' ') of line 91 followed by line 92.
RECURSIVE JoinCapitalised(_)
JoinCapitalised(parts) ==
    IF parts = <<>> THEN ""
    ELSE IF Len(parts) = 1 THEN Capitalise(parts[1])
    ELSE Capitalise(parts[1]) \o " " \o JoinCapitalised(Tail(parts))

\* findIndex of line 88: the position of the first state code, 0 if none
\* (the code's -1; positions count from 1 here, the code's from 0).
RECURSIVE FindStateCode(_, _)
FindStateCode(parts, k) ==
    IF k > Len(parts) THEN 0
    ELSE IF parts[k] \in StateCodes THEN k
    ELSE FindStateCode(parts, k + 1)

\* suburbFromDomainUrl, lines 84-93, on the slug split at its hyphens: null
\* without a state code or with the state code first; otherwise all tokens
\* before the first state code that are not numbers, joined and capitalised.
SuburbFromDomainUrl(parts) ==
    LET vicIdx == FindStateCode(parts, 1)
        suburbParts == SelectSeq(SubSeq(parts, 1, vicIdx - 1),
                                 LAMBDA part : ~DigitsOnly(part))
    IN IF vicIdx <= 1 THEN Null
       ELSE IF suburbParts = <<>> THEN Null
       ELSE JoinCapitalised(suburbParts)

\* Lines 214-217: the type the realestate.com.au extractor reads from the
\* url, "House" when the url names none.
TypeFromUrl(typeToken) ==
    CASE typeToken \in {"property-unit", "property-apartment"} -> "Unit"
      [] typeToken = "property-townhouse" -> "Townhouse"
      [] OTHER -> "House"

\* Lines 213-219: the type from the url, replaced by the keyword the page
\* shows between two tags when there is one.
RealestatePropertyType(typeToken, keyword) ==
    IF keyword # "" THEN keyword ELSE TypeFromUrl(typeToken)

\* Lines 140-142: the Domain extractor reads the type from the page only.
DomainPropertyType(keyword) == IF keyword # "" THEN keyword ELSE "House"

\* The extractor reads the suburb and the type of the listing it was given.
ExtractFields ==
    /\ stage = "fields"
    /\ listing.pc = "body"
    /\ listing' =
          [listing EXCEPT
              !.pc = "done",
              !.status = 200,
              !.suburb = IF listing.site = "domain"
                         THEN SuburbFromDomainUrl(listing.slug) ELSE Null,
              !.propertyType =
                  IF listing.site = "domain"
                  THEN DomainPropertyType(listing.keyword)
                  ELSE RealestatePropertyType(listing.typeToken, listing.keyword)]
    /\ UNCHANGED <<stage, suburbsFile, vpsrFile, mergeRuns, fileBefore, stubVars,
                   nearby, server, batchVars, reivVars, gateVars>>

\* Tokens of a street address in front of the suburb; "wa" is a street name
\* that is also a state code.
StreetParts == {"12", "3a", "smith", "street", "wa"}

StreetPrefixes == UNION {[1..n -> StreetParts] : n \in 0..MaxTokens}

SouthMorang == <<"south", "morang", "vic", "3752", "2020549940">>

\* Slugs of domain.com.au urls: an address in South Morang, and slugs
\* without a state code or starting with it.
DomainSlugs ==
    {prefix \o SouthMorang : prefix \in StreetPrefixes}
    \cup {<<"south", "morang", "3752", "2020549940">>,
          <<"vic", "3752", "2020549940">>, <<"2020549940">>}

\* The type token of a realestate.com.au url, "" when it has none.
TypeTokens ==
    {"property-house", "property-unit", "property-apartment",
     "property-townhouse", ""}

\* The type keyword the page shows between two tags, "" when it shows none.
TypeKeywords == {"House", "Unit", "Townhouse", "Villa", "Apartment", ""}

InitFields ==
    /\ ReivUnused
    /\ BatchUnused
    /\ StubUnused
    /\ wake = 0 /\ geoStarts = <<>> /\ transit = [r \in 1..MaxCalls |-> IdleTransit]
    /\ stage = "fields"
    /\ \/ \E slug \in DomainSlugs, keyword \in TypeKeywords :
             listing = [IdleListing EXCEPT !.pc = "body", !.site = "domain",
                                           !.slug = slug, !.keyword = keyword]
       \/ \E typeToken \in TypeTokens, keyword \in TypeKeywords :
             listing = [IdleListing EXCEPT !.pc = "body", !.site = "realestate",
                                           !.typeToken = typeToken,
                                           !.keyword = keyword]
    /\ nearby = IdleNearby
    /\ server = ServerDown("readable")
    /\ suburbsFile = [keys |-> <<>>, suburbs |-> EmptyMap, notes |-> <<>>]
    /\ vpsrFile = EmptyMap /\ mergeRuns = 0 /\ fileBefore = Null
    /\ file0 = suburbsFile

NextFields == ExtractFields

SpecFields == InitFields /\ [][NextFields]_vars

\* C31: for the site whose extractor reads the type from the url, the type
\* of the url wins: whenever the url has a type token the propertyType is
\* the one derived from it, even if the page shows another type keyword
\* between two tags.
C31_UrlTypeTakesPrecedence ==
    ( /\ listing.pc = "done"
      /\ listing.site = "realestate"
      /\ listing.typeToken # "" )
    => listing.propertyType = TypeFromUrl(listing.typeToken)

\* C32: for a Domain url whose slug ends in
\* "-south-morang-vic-3752-2020549940", whatever street-address tokens come
\* before the suburb, the suburb is "South Morang"; when the slug has no
\* state code, or starts with it, the suburb is null.
C32_SuburbFromSlug ==
    (listing.pc = "done" /\ listing.site = "domain") =>
        LET n == Len(listing.slug)
            first == FindStateCode(listing.slug, 1)
        IN /\ (n >= 5 /\ SubSeq(listing.slug, n - 4, n) = SouthMorang) =>
                 listing.suburb = "South Morang"
           /\ first <= 1 => listing.suburb = Null

====
